---- MODULE Spec2Model ----
(***************************************************************************)
(* Model of the anonymization core of gdpr-databricks-compliance:          *)
(*   src/src/k_anonymity.py      KAnonymityChecker                         *)
(*   src/src/pseudonymization.py Pseudonymizer                             *)
(* The pandas and Fernet operations the code calls are modelled by what    *)
(* they do on the values the model draws (pandas >= 2.0, cryptography >=   *)
(* 42, as pinned in src/setup.py).  Two import slips of the source         *)
(* (`Any` is not imported in k_anonymity.py, `PBKDF2` stands for           *)
(* PBKDF2HMAC in pseudonymization.py) are read as the evident intent;      *)
(* the model describes the classes once they load.                         *)
(***************************************************************************)
EXTENDS Integers, Sequences, FiniteSets, TLC

VARIABLES
    df,        \* k-anonymity: the caller's pandas DataFrame (sequence of labelled rows)
    kthr,      \* k-anonymity: KAnonymityChecker.k_threshold
    out,       \* k-anonymity: what the last KAnonymityChecker call returned
    secret,    \* pseudonymizer: the secret each instance was constructed from
    cache,     \* pseudonymizer: Pseudonymizer.mapping_cache of each instance
    files,     \* pseudonymizer: content of the mapping files on disk
    first,     \* pseudonymizer: first deterministic token each instance returned per value
    last,      \* pseudonymizer: the last call on an instance and what it returned
    serialized, \* shared instance: whether the callers wrap each call in a mutex
    lock,      \* shared instance: the caller holding that mutex (0: nobody)
    thr,       \* shared instance: each caller's position inside pseudonymize and its locals
    held,      \* shared instance: the tokens each caller was handed, per value
    min_confidence, \* PII detector: PIIDetector.min_confidence
    pii,       \* PII detector: the last PIIDetector call and what it returned
    min_quality_score, \* quality gate: DataQualityValidator.min_quality_score, in percent
    rules,     \* quality gate: DataQualityValidator.rules
    vres,      \* quality gate: the last validate call and what it returned
    tracker,   \* ledger: which recorder this is, AuditLogger or LineageTracker
    spark,     \* ledger: whether the recorder's self.spark is a session
    buffer,    \* ledger: log_buffer / lineage_history
    ledger,    \* ledger: the rows of the recorder's Delta table
    issued,    \* ledger: how many entries log / track_* have recorded
    alast,     \* ledger: the last call on the recorder and how it ended
    policy,    \* retention: RetentionManager.policies[table], if registered
    rspark,    \* retention: whether RetentionManager.spark is a session
    trows,     \* retention: the rows of the table, by their state
    has_col,   \* retention: whether the table has a deleted_at column
    rlast,     \* retention: the last apply_retention call and what it did
    wpc,       \* pipeline: where process_with_compliance stands
    win,       \* pipeline: the arguments and the environment of the call
    steps,     \* pipeline: results["steps_completed"]
    wpii,      \* pipeline: the local pii_columns
    wval,      \* pipeline: how the quality validation of the run ended
    pseudonymized, \* pipeline: whether the batch has been pseudonymized
    written,   \* pipeline: whether the target table has been written
    wrec       \* pipeline: entries buffered in and flushed from the two recorders

vars == <<df, kthr, out, secret, cache, files, first, last,
          serialized, lock, thr, held, min_confidence, pii,
          min_quality_score, rules, vres,
          tracker, spark, buffer, ledger, issued, alast,
          policy, rspark, trows, has_col, rlast,
          wpc, win, steps, wpii, wval, pseudonymized, written, wrec>>
kvars == <<df, kthr, out>>
pvars == <<secret, cache, files, first, last>>
cvars == <<serialized, lock, thr, held>>
dvars == <<min_confidence, pii>>
qvars == <<min_quality_score, rules, vres>>
avars == <<tracker, spark, buffer, ledger, issued, alast>>
rvars == <<policy, rspark, trows, has_col, rlast>>
wvars == <<wpc, win, steps, wpii, wval, pseudonymized, written, wrec>>
ext == <<qvars, avars, rvars, wvars>>  \* the components around the core
nonK == <<pvars, cvars, dvars, ext>>  \* what the k-anonymity machine leaves alone
nonP == <<kvars, cvars, dvars, ext>>  \* what the synchronous pseudonymizer leaves alone
nonC == <<kvars, dvars, ext>>      \* what the callers of a shared instance leave alone
nonD == <<kvars, pvars, cvars, ext>>  \* what the PII detector leaves alone
nonQ == <<kvars, pvars, cvars, dvars, avars, rvars, wvars>>  \* what the quality gate leaves alone
nonA == <<kvars, pvars, cvars, dvars, qvars, rvars, wvars>>  \* what a recorder leaves alone
nonR == <<kvars, pvars, cvars, dvars, qvars, avars, wvars>>  \* what the retention manager leaves alone
nonW == <<kvars, pvars, cvars, dvars, qvars, avars, rvars>>  \* what the pipeline's own state excludes

\* ---------------------------------------------------------------- bounds
MaxRows == 3      \* rows of a drawn batch
MaxK == 3      \* k_threshold and min_group_size are drawn from 1..MaxK
MaxNonce == 2     \* distinct random IVs a Fernet encryption can draw
MaxCol == 2      \* cells of a column handed to pseudonymize_column

\* ------------------------------------------------------------ cell values
None == [k |-> "null"]
Txt(s) == [k |-> "str", s |-> s]
Num(n) == [k |-> "num", n |-> n]

ZipA == Txt(<<"a", "b", "c", "d", "e", "x">>)
ZipB == Txt(<<"a", "b", "c", "d", "e", "y">>)
ZipValues == {None, ZipA, ZipB}
AgeValues == {None, Num(21), Num(25)}

\* a datetime64 cell and the Period cells dt.to_period turns it into; s is
\* the text str() gives
DateA == [k |-> "date", s |-> <<"2", "0", "2", "0", "-", "0", "1", "-", "1", "5">>]
PeriodOf(c, n) == [k |-> "period", s |-> SubSeq(c.s, 1, n)]

Columns == {"zip", "age", "dob"}   \* columns of every drawn batch
AbsentColumn == "ssn"              \* a column name no batch has

RowOf(l, z, a) == [label |-> l, zip |-> z, age |-> a, dob |-> DateA]

\* the <<zip, age>> cells a drawn row can hold
RowKinds ==
    { <<ZipA, Num(21)>>, <<ZipA, Num(25)>>, <<ZipB, Num(21)>>,
      <<None, Num(21)>>, <<ZipA, None>>, <<None, None>> }

\* DataFrames as a caller builds them: row labels are the RangeIndex 0..n-1
FreshTables ==
    UNION { { [i \in 1..n |-> RowOf(i - 1, ks[i][1], ks[i][2])] :
                ks \in [1..n -> RowKinds] } :
            n \in 0..MaxRows }

QIChoices == { <<"zip">>, <<"age">>, <<"zip", "age">>, <<"zip", AbsentColumn>> }
Levels == {"low", "medium", "high"}
\* generalization_level is any string
LevelNames == Levels \cup {"extreme"}
AllPresent(Q) == \A i \in 1..Len(Q) : Q[i] \in Columns

\* ------------------------------------------------------ pandas primitives
Min2(a, b) == IF a <= b THEN a ELSE b

\* the tuple of quasi-identifier values of a row
TupleOf(r, Q) == [i \in 1..Len(Q) |-> r[Q[i]]]

HasNull(r, Q) == \E i \in 1..Len(Q) : r[Q[i]] = None

\* the number of rows of T whose Q-tuple is c (nulls compared as values)
RowsWith(T, Q, c) == Cardinality({ i \in 1..Len(T) : TupleOf(T[i], Q) = c })

\* the tuples DataFrame.value_counts() has in its index
ValueCounts(T, Q) ==
    { TupleOf(T[i], Q) : i \in { j \in 1..Len(T) : ~HasNull(T[j], Q) } }

RECURSIVE SetMin(_)
SetMin(S) ==
    IF S = {} THEN 0
    ELSE LET x == CHOOSE y \in S : TRUE
             rest == S \ {x}
         IN IF rest = {} THEN x ELSE Min2(x, SetMin(rest))

\* ------------------------------------------------------ KAnonymityChecker
NoResult == [k_value |-> 0, is_compliant |-> FALSE, vulnerable |-> {},
             missing |-> <<>>]

\* variant: the test for missing columns is left out and the present
\* columns are grouped
CheckKAnonymitySkipsMissing(T, Q, k) ==
    LET present == SelectSeq(Q, LAMBDA c : c \in Columns)
        combos  == ValueCounts(T, present)
        min_k   == SetMin({ RowsWith(T, present, c) : c \in combos })
    IN [k_value |-> min_k,
        is_compliant |-> (min_k >= k),
        vulnerable |-> { [combo |-> c, count |-> RowsWith(T, present, c)] :
                           c \in { d \in combos : RowsWith(T, present, d) < k } },
        missing |-> <<>>]

\* check_k_anonymity: the KAnonymityResult (the recommendations are kept as
\* the list of missing columns they name)
CheckKAnonymity(T, Q, k) ==
    LET missing_cols == SelectSeq(Q, LAMBDA c : c \notin Columns)
    IN IF missing_cols # <<>>
       THEN [k_value |-> 0, is_compliant |-> FALSE, vulnerable |-> {},
             missing |-> missing_cols]
       ELSE LET combos == ValueCounts(T, Q)
                min_k  == SetMin({ RowsWith(T, Q, c) : c \in combos })
            IN [k_value |-> min_k,
                is_compliant |-> (min_k >= k),
                vulnerable |-> { [combo |-> c, count |-> RowsWith(T, Q, c)] :
                                   c \in { d \in combos : RowsWith(T, Q, d) < k } },
                missing |-> <<>>]

\* Series.str[:n]
StrHead(s, n) == SubSeq(s, 1, Min2(n, Len(s)))

\* Series.astype(str) of one cell of a text column
AsStr(c) == IF c = None THEN <<"N", "o", "n", "e">> ELSE c.s

Mask == Txt(<<"*", "*", "*">>)

\* generalize of one cell: numeric columns by floor division, text columns
\* by truncation of the value's string form
GeneralizeCell(c, level) ==
    IF c.k = "num"
    THEN IF level = "low" THEN Num((c.n \div 10) * 10)
         ELSE IF level = "medium" THEN Num((c.n \div 100) * 100)
         ELSE Num((c.n \div 1000) * 1000)
    ELSE IF level = "low" THEN Txt(StrHead(AsStr(c), 5))
         ELSE IF level = "medium" THEN Txt(StrHead(AsStr(c), 3))
         ELSE Mask

\* the dtype test of generalize: "age" is the numeric column (nulls are NaN
\* and stay NaN), "zip" is the text column, "dob" is a datetime64 column
\* until to_period has made it a Period column, which is neither numeric
\* nor datetime64 and takes the text branch
GeneralizeColumnCell(column, c, level) ==
    IF column = "age"
    THEN IF c = None THEN None ELSE GeneralizeCell(c, level)
    ELSE IF c.k = "date"
    THEN IF level = "low" THEN PeriodOf(c, 7) ELSE PeriodOf(c, 4)
    ELSE GeneralizeCell(c, level)

Generalize(T, column, level) ==
    [i \in 1..Len(T) |->
        [T[i] EXCEPT ![column] = GeneralizeColumnCell(column, @, level)]]

\* `min_group_size or self.k_threshold`
NoMin == -1       \* min_group_size = None, the parameter's default
EffectiveMin(m, k) == IF m = NoMin \/ m = 0 THEN k ELSE m

\* the boolean mask of suppress_rows: pd.Series([..] * len(df)) is indexed
\* 0..len(df)-1 and is combined with df[col] == val, indexed by df's own row
\* labels; pandas aligns the two on the labels and fills the gaps with False
MaskAt(T, Q, valid, r) ==
    /\ r.label \in 0..(Len(T) - 1)
    /\ TupleOf(r, Q) \in valid

SuppressRows(T, Q, m, k) ==
    LET min_group_size == EffectiveMin(m, k)
        valid == { c \in ValueCounts(T, Q) : RowsWith(T, Q, c) >= min_group_size }
    IN IF valid = {} THEN <<>>
       ELSE SelectSeq(T, LAMBDA r : MaskAt(T, Q, valid, r))

\* the generalization loop of ensure_k_anonymity; a strategy maps some
\* columns to levels, absent columns are skipped
RECURSIVE ApplyStrategy(_, _, _)
ApplyStrategy(T, strat, todo) ==
    IF todo = {} THEN T
    ELSE LET c == CHOOSE x \in todo : TRUE
         IN ApplyStrategy(IF c \in Columns THEN Generalize(T, c, strat[c]) ELSE T,
                          strat, todo \ {c})

\* ensure_k_anonymity: <<result_df, check_result>>, or the exception that
\* df[quasi_identifiers] raises inside suppress_rows
EnsureKAnonymity(T, Q, strat, apply_suppression, k) ==
    LET g == ApplyStrategy(T, strat, DOMAIN strat)
        c1 == CheckKAnonymity(g, Q, k)
    IN IF ~c1.is_compliant /\ apply_suppression
       THEN IF ~AllPresent(Q)
            THEN [raised |-> TRUE, table |-> <<>>, res |-> NoResult]
            ELSE LET s == SuppressRows(g, Q, NoMin, k)
                 IN [raised |-> FALSE, table |-> s,
                     res |-> CheckKAnonymity(s, Q, k)]
       ELSE [raised |-> FALSE, table |-> g, res |-> c1]

\* ---- create_aggregate_only_view
AggNames == {"count", "sum", "mean", "min", "max", "nunique"}

RECURSIVE SetSum(_)
SetSum(S) ==
    IF S = {} THEN 0
    ELSE LET x == CHOOSE y \in S : TRUE IN x[2] + SetSum(S \ {x})

RECURSIVE SetMax(_)
SetMax(S) ==
    IF S = {} THEN 0
    ELSE LET x == CHOOSE y \in S : TRUE
             rest == S \ {x}
         IN IF rest = {} THEN x
            ELSE LET mr == SetMax(rest) IN IF x >= mr THEN x ELSE mr

\* one pandas aggregation of column col over the rows idx of T; nulls are
\* skipped, a name outside the closed set is handed to pandas as it is
Aggregate(T, idx, col, fn) ==
    LET nn   == { i \in idx : T[i][col] # None }
        vals == { T[i][col].n : i \in nn }
        sum  == SetSum({ <<i, T[i][col].n>> : i \in nn })
    IN IF fn = "count" THEN Num(Cardinality(nn))
       ELSE IF fn = "sum" THEN Num(sum)
       ELSE IF fn = "mean"
            THEN IF nn = {} THEN None
                 ELSE [k |-> "frac", num |-> sum, den |-> Cardinality(nn)]
       ELSE IF fn = "min" THEN IF nn = {} THEN None ELSE Num(SetMin(vals))
       ELSE IF fn = "max" THEN IF nn = {} THEN None ELSE Num(SetMax(vals))
       ELSE Num(Cardinality(vals))

\* the groups of df.groupby(group_by_columns), in the sorted order of
\* their keys; a row with a null key belongs to no group
KeyOrder == << <<ZipA>>, <<ZipB>> >>
GroupKeys(T, G) == SelectSeq(KeyOrder, LAMBDA c : c \in ValueCounts(T, G))
GroupRows(T, G, c) == { i \in 1..Len(T) : TupleOf(T[i], G) = c }

\* create_aggregate_only_view: the emitted rows in order (n is the
\* _group_count the row was filtered on, dropped from the emitted frame),
\* or the KeyError of aggregated['_group_count'] when no aggregation is left
CreateAggregateOnlyView(T, G, aggs, m, k) ==
    LET min_group_size == EffectiveMin(m, k)
        agg_dict == { c \in DOMAIN aggs : c \in Columns }
        row(c) == [key |-> c,
                   n |-> Cardinality(GroupRows(T, G, c)),
                   stats |-> [a \in agg_dict |->
                                Aggregate(T, GroupRows(T, G, c), a, aggs[a])]]
        all == GroupKeys(T, G)
        aggregated == [i \in 1..Len(all) |-> row(all[i])]
    IN IF agg_dict = {}
       THEN [raised |-> TRUE, view |-> <<>>]
       ELSE [raised |-> FALSE,
             view |-> SelectSeq(aggregated, LAMBDA r : r.n >= min_group_size)]

\* ------------------------------------------- the k-anonymity state machine
\* a strategy names no column, one column, or both
Strategies ==
    UNION { [S -> Levels] : S \in {{}, {"zip"}, {"age"}} }
        \cup { [c \in {"zip", "age"} |-> IF c = "zip" THEN "medium" ELSE "low"] }
\* the strategies that also name the datetime column
DateStrategies == [{"dob"} -> Levels]
MinChoices == {NoMin} \cup 0..MaxK
\* an aggregation map names "age", the absent column, both or nothing
AggMaps ==
    UNION { [S -> AggNames] : S \in {{}, {"age"}} }
        \cup { [c \in S |-> "count"] : S \in {{AbsentColumn}, {"age", AbsentColumn}} }
GroupBy == <<"zip">>

NoStrategy == [c \in {} |-> "low"]
NoAggs == [c \in {} |-> "count"]

NoOut == [op |-> "none", Q |-> <<>>, m |-> NoMin, strat |-> NoStrategy,
          aggs |-> NoAggs, sup |-> FALSE, column |-> "", level |-> "",
          raised |-> FALSE, table |-> <<>>, res |-> NoResult, view |-> <<>>]

\* the quality gate before any rule is added
NoVres == [op |-> "none", fail_on_error |-> FALSE, outcomes |-> <<>>,
           raised |-> FALSE, results |-> <<>>, error_count |-> 0,
           warning_count |-> 0, passed_rules |-> 0, overall_passed |-> FALSE]
QIdle ==
    /\ min_quality_score = 0
    /\ rules = <<>>
    /\ vres = NoVres

\* a recorder after __init__ without a session
NoAlast == [op |-> "none", raised |-> FALSE, buffer |-> <<>>, ledger |-> <<>>]
AIdle ==
    /\ tracker = "audit"
    /\ spark = FALSE
    /\ buffer = <<>>
    /\ ledger = <<>>
    /\ issued = 0
    /\ alast = NoAlast

\* a retention manager after __init__, without session or policy
NoPolicy == [registered |-> FALSE, enabled |-> FALSE, soft_delete |-> FALSE]
NoRlast == [op |-> "none", status |-> "", stmts |-> <<>>, soft_delete |-> FALSE,
            before |-> <<>>]
RIdle ==
    /\ policy = NoPolicy
    /\ rspark = FALSE
    /\ trows = <<>>
    /\ has_col = FALSE
    /\ rlast = NoRlast

\* the orchestrator before process_with_compliance is called
NoWin == [spark |-> FALSE, active |-> FALSE, pii_columns |-> "none",
          validate_quality |-> FALSE, ensure_k_anonymity |-> FALSE,
          quasi_identifiers |-> "none"]
NoWval == [ran |-> FALSE, raised |-> FALSE, overall_passed |-> FALSE]
NoWrec == [lineage |-> 0, audit |-> 0, lineage_ledger |-> 0, audit_ledger |-> 0]
WIdle ==
    /\ wpc = "idle"
    /\ win = NoWin
    /\ steps = <<>>
    /\ wpii = "none"
    /\ wval = NoWval
    /\ pseudonymized = FALSE
    /\ written = FALSE
    /\ wrec = NoWrec

ExtIdle == QIdle /\ AIdle /\ RIdle /\ WIdle

\* no detector has been constructed
DIdle ==
    /\ min_confidence = <<>>
    /\ pii = <<>>

\* no caller shares an instance
CIdle ==
    /\ serialized = FALSE
    /\ lock = 0
    /\ thr = <<>>
    /\ held = <<>>

\* the state of the pseudonymizer, untouched by the k-anonymity machine
PIdle ==
    /\ secret = <<>>
    /\ cache = <<>>
    /\ files = <<>>
    /\ first = <<>>
    /\ last = <<>>

InitK ==
    /\ df \in FreshTables
    /\ kthr \in 1..MaxK
    /\ out = NoOut
    /\ PIdle
    /\ CIdle
    /\ DIdle
    /\ ExtIdle

CheckOp ==
    /\ out = NoOut
    /\ \E Q \in QIChoices :
        /\ out' = [NoOut EXCEPT !.op = "check_k_anonymity", !.Q = Q,
                                !.res = CheckKAnonymity(df, Q, kthr)]
        /\ UNCHANGED <<df, kthr>>
        /\ UNCHANGED nonK

GeneralizeOp ==
    /\ out = NoOut
    /\ \E c \in Columns, level \in LevelNames :
        /\ out' = [NoOut EXCEPT !.op = "generalize", !.column = c,
                                !.level = level,
                                !.table = Generalize(df, c, level)]
        /\ UNCHANGED <<df, kthr>>
        /\ UNCHANGED nonK

\* suppress_rows raises on df[quasi_identifiers] when a column is absent
SuppressOp ==
    /\ out = NoOut
    /\ \E Q \in QIChoices, m \in MinChoices :
        /\ out' = [NoOut EXCEPT !.op = "suppress_rows", !.Q = Q, !.m = m,
                                !.raised = ~AllPresent(Q),
                                !.table = IF AllPresent(Q)
                                          THEN SuppressRows(df, Q, m, kthr)
                                          ELSE <<>>]
        /\ UNCHANGED <<df, kthr>>
        /\ UNCHANGED nonK

EnsureWith(strategies) ==
    /\ out = NoOut
    /\ \E Q \in QIChoices, strat \in strategies, sup \in BOOLEAN :
        /\ LET e == EnsureKAnonymity(df, Q, strat, sup, kthr)
           IN out' = [NoOut EXCEPT !.op = "ensure_k_anonymity", !.Q = Q,
                                   !.strat = strat, !.sup = sup,
                                   !.raised = e.raised, !.table = e.table,
                                   !.res = e.res]
        /\ UNCHANGED <<df, kthr>>
        /\ UNCHANGED nonK

EnsureOp == EnsureWith(Strategies)

\* ensure_k_anonymity with a strategy for the datetime column
EnsureDatedOp == EnsureWith(DateStrategies)

AggregateOp ==
    /\ out = NoOut
    /\ \E aggs \in AggMaps, m \in MinChoices :
        /\ LET v == CreateAggregateOnlyView(df, GroupBy, aggs, m, kthr)
           IN out' = [NoOut EXCEPT !.op = "create_aggregate_only_view",
                                   !.Q = GroupBy, !.aggs = aggs, !.m = m,
                                   !.raised = v.raised, !.view = v.view]
        /\ UNCHANGED <<df, kthr>>
        /\ UNCHANGED nonK

\* the caller hands the frame a call returned to the next call
FeedOp ==
    /\ out.op \in {"suppress_rows", "ensure_k_anonymity"}
    /\ ~out.raised
    /\ out.table # df
    /\ df' = out.table
    /\ out' = NoOut
    /\ UNCHANGED kthr
    /\ UNCHANGED nonK

\* check, suppress and ensure, the output of one call feeding the next
NextK ==
    \/ CheckOp
    \/ SuppressOp
    \/ EnsureOp
    \/ FeedOp

SpecK == InitK /\ [][NextK]_vars

\* the aggregate-only view of a batch
NextA == AggregateOp

SpecA == InitK /\ [][NextA]_vars

\* ensure_k_anonymity called again on the table it returned
NextF ==
    \/ EnsureDatedOp
    \/ FeedOp

SpecF == InitK /\ [][NextF]_vars

\* the generalization of one column of a batch
NextG == GeneralizeOp

SpecG == InitK /\ [][NextG]_vars

\* ------------------------------------------------- k-anonymity properties
\* what the claims mean by a group: the rows sharing one tuple of
\* quasi-identifier values, a null being a value like any other
TuplesOf(T, Q) == { TupleOf(T[i], Q) : i \in 1..Len(T) }
SmallestGroup(T, Q) == SetMin({ RowsWith(T, Q, c) : c \in TuplesOf(T, Q) })
GivenMin(m, k) == IF m = NoMin THEN k ELSE m

\* C1: ensure_k_anonymity with apply_suppression = true, on a batch that has
\* every declared quasi-identifier column, returns a table in which every
\* tuple present occurs at least k_threshold times (or an empty table), and
\* the returned result is compliant exactly when that table is non-empty.
C1_EnsureGuarantee ==
    (out.op = "ensure_k_anonymity" /\ out.sup /\ AllPresent(out.Q)) =>
        /\ ~out.raised
        /\ \A i \in 1..Len(out.table) :
             RowsWith(out.table, out.Q, TupleOf(out.table[i], out.Q)) >= kthr
        /\ out.res.is_compliant <=> (out.table # <<>>)

\* C2: check_k_anonymity on a batch that has every declared column returns
\* k_value = the size of the smallest group of rows sharing a tuple (0 for an
\* empty batch), is_compliant = (k_value >= k_threshold), and one vulnerable
\* entry (tuple and count) per distinct tuple whose count is below k_threshold.
C2_CheckResult ==
    (out.op = "check_k_anonymity" /\ AllPresent(out.Q)) =>
        /\ out.res.k_value = SmallestGroup(df, out.Q)
        /\ out.res.is_compliant <=> (out.res.k_value >= kthr)
        /\ out.res.vulnerable =
             { [combo |-> c, count |-> RowsWith(df, out.Q, c)] :
                 c \in { d \in TuplesOf(df, out.Q) : RowsWith(df, out.Q, d) < kthr } }

\* C3: suppress_rows(T, Q, m) returns exactly the rows of T whose Q-tuple
\* occurs at least m times in T (m = k_threshold when none is given), each
\* unchanged and in the original order; no rows when no tuple reaches m.
C3_SuppressExact ==
    (out.op = "suppress_rows" /\ AllPresent(out.Q)) =>
        /\ ~out.raised
        /\ out.table =
             SelectSeq(df, LAMBDA r :
                 RowsWith(df, out.Q, TupleOf(r, out.Q)) >= GivenMin(out.m, kthr))

\* C4: when the aggregation map names a column of the batch, every row that
\* create_aggregate_only_view emits comes from a group of at least
\* min_group_size raw rows (k_threshold when none is given), and every group
\* of at least that size is emitted exactly once.
C4_AggregateGroups ==
    (out.op = "create_aggregate_only_view"
        /\ (DOMAIN out.aggs) \cap Columns # {}) =>
        /\ ~out.raised
        /\ \A i \in 1..Len(out.view) : out.view[i].n >= GivenMin(out.m, kthr)
        /\ \A c \in TuplesOf(df, out.Q) :
             RowsWith(df, out.Q, c) >= GivenMin(out.m, kthr) =>
                Cardinality({ i \in 1..Len(out.view) : out.view[i].key = c }) = 1

\* =========================================================== Pseudonymizer
Instances == {1, 2}
Nonces == 1..MaxNonce
Values == {"", "a"}                  \* the strings handed to pseudonymize
FileNames == {"f1"}

\* the accepted forms of the constructor's key argument: the url-safe base64
\* text of 32 bytes, 64 hex characters, or any other string (a passphrase)
SecretB64 == [form |-> "b64", id |-> "k1"]
SecretHex == [form |-> "hex", id |-> "k1"]
SecretPass == [form |-> "pass", id |-> "p1"]
Secrets == {SecretB64, SecretHex, SecretPass}
\* no instance: __init__ has not run, or it raised
NoSecret == [form |-> "none", id |-> ""]

\* _prepare_key: the 32 key bytes behind the Fernet key it returns
PrepareKey(s) ==
    IF s.form = "b64" THEN <<"raw", s.id>>
    ELSE IF s.form = "hex" THEN <<"raw", s.id>>
    ELSE <<"kdf", s.id>>

\* the per-value key of the deterministic branch: PBKDF2 of the value,
\* salted with the value's own hash; the instance key takes no part
DetKey(v) == <<"det", v>>

NoKey == <<"", "">>

\* Python strings that pseudonymize/depseudonymize exchange:
\*   Plain(v)           the text v itself
\*   FernetTok(k, v, n) Fernet(k).encrypt(v) drawn with IV n
\*   Wrapped(t)         urlsafe_b64encode of the Fernet token t
Plain(v) == [kind |-> "text", key |-> NoKey, pt |-> v, iv |-> 0]
FernetTok(key, v, n) == [kind |-> "fernet", key |-> key, pt |-> v, iv |-> n]
Wrapped(t) == [t EXCEPT !.kind = "b64"]

NoTok == [kind |-> "none", key |-> NoKey, pt |-> "", iv |-> 0]
Failed == "InvalidToken"

\* Fernet(key).decrypt(token): the plaintext when the token is a Fernet token
\* authenticated under key; any other text is rejected
FernetDecrypt(key, t) ==
    IF t.kind = "fernet" /\ t.key = key THEN t.pt ELSE Failed

\* variant: the per-value cipher is used in both modes
MakeTokenDetCipher(s, v, deterministic, n) ==
    Wrapped(FernetTok(DetKey(v), v, n))

\* variant: the instance cipher is used in both modes
MakeTokenMainCipher(s, v, deterministic, n) ==
    FernetTok(PrepareKey(s), v, n)

\* the token the encrypting part of pseudonymize builds for value v, the
\* Fernet IV being n
MakeToken(s, v, deterministic, n) ==
    IF deterministic
    THEN Wrapped(FernetTok(DetKey(v), v, n))
    ELSE FernetTok(PrepareKey(s), v, n)

\* variant: the cache is looked up in both modes
PseudonymizeOutcomesAlwaysLookup(s, c, v, deterministic) ==
    IF v = "" THEN { [ret |-> Plain(v), cache |-> c] }
    ELSE IF v \in DOMAIN c
    THEN { [ret |-> c[v], cache |-> c] }
    ELSE { [ret |-> MakeToken(s, v, deterministic, n),
            cache |-> IF deterministic
                      THEN [x \in DOMAIN c \cup {v} |->
                              IF x = v THEN MakeToken(s, v, deterministic, n)
                              ELSE c[x]]
                      ELSE c] : n \in Nonces }

\* variant: the token is stored in the cache in both modes
PseudonymizeOutcomesAlwaysStore(s, c, v, deterministic) ==
    IF v = "" THEN { [ret |-> Plain(v), cache |-> c] }
    ELSE IF deterministic /\ v \in DOMAIN c
    THEN { [ret |-> c[v], cache |-> c] }
    ELSE { [ret |-> MakeToken(s, v, deterministic, n),
            cache |-> [x \in DOMAIN c \cup {v} |->
                         IF x = v THEN MakeToken(s, v, deterministic, n)
                         ELSE c[x]]] : n \in Nonces }

\* pseudonymize as a relation: [ret, cache] for every IV the call may draw
PseudonymizeOutcomes(s, c, v, deterministic) ==
    IF v = "" THEN { [ret |-> Plain(v), cache |-> c] }
    ELSE IF deterministic /\ v \in DOMAIN c
    THEN { [ret |-> c[v], cache |-> c] }
    ELSE { [ret |-> MakeToken(s, v, deterministic, n),
            cache |-> IF deterministic
                      THEN [x \in DOMAIN c \cup {v} |->
                              IF x = v THEN MakeToken(s, v, deterministic, n)
                              ELSE c[x]]
                      ELSE c] : n \in Nonces }

\* variant: a token that cannot be reversed is handed back without an error
DepseudonymizeOutcomesNoRaise(s, c, t) ==
    IF t = Plain("") THEN { [ret |-> t, err |-> FALSE] }
    ELSE IF FernetDecrypt(PrepareKey(s), t) # Failed
    THEN { [ret |-> Plain(FernetDecrypt(PrepareKey(s), t)), err |-> FALSE] }
    ELSE IF \E original \in DOMAIN c : c[original] = t
    THEN { [ret |-> Plain(original), err |-> FALSE] :
             original \in { o \in DOMAIN c : c[o] = t } }
    ELSE { [ret |-> t, err |-> FALSE] }

\* depseudonymize: the returned text, or the ValueError and the token it names
DepseudonymizeOutcomes(s, c, t) ==
    IF t = Plain("") THEN { [ret |-> t, err |-> FALSE] }
    ELSE IF FernetDecrypt(PrepareKey(s), t) # Failed
    THEN { [ret |-> Plain(FernetDecrypt(PrepareKey(s), t)), err |-> FALSE] }
    ELSE IF \E original \in DOMAIN c : c[original] = t
    THEN { [ret |-> Plain(original), err |-> FALSE] :
             original \in { o \in DOMAIN c : c[o] = t } }
    ELSE { [ret |-> t, err |-> TRUE] }

NullCell == [kind |-> "null", key |-> NoKey, pt |-> "", iv |-> 0]
Cells == {NullCell} \cup { Plain(v) : v \in Values \ {""} }
ColumnsIn == UNION { [1..n -> Cells] : n \in 1..MaxCol }

\* _pseudonymize_pandas_column on one column: pseudonymize is applied cell
\* by cell in row order, a null cell is left as it is
RECURSIVE ColumnOutcomes(_, _, _, _)
ColumnOutcomes(s, c, col, deterministic) ==
    IF col = <<>> THEN { [col |-> <<>>, cache |-> c] }
    ELSE LET heads == IF Head(col) = NullCell
                      THEN { [ret |-> NullCell, cache |-> c] }
                      ELSE PseudonymizeOutcomes(s, c, Head(col).pt, deterministic)
         IN UNION { { [col |-> <<h.ret>> \o t.col, cache |-> t.cache] :
                        t \in ColumnOutcomes(s, h.cache, Tail(col), deterministic) } :
                    h \in heads }

EmptyCache == [v \in {} |-> NoTok]
NoFile == [exists |-> FALSE, content |-> EmptyCache]

NoLast == [op |-> "none", inst |-> 0, v |-> "", det |-> FALSE, arg |-> NoTok,
           ret |-> NoTok, err |-> FALSE, col |-> <<>>, colout |-> <<>>,
           file |-> "", session |-> FALSE, names |-> <<>>, frame |-> <<>>,
           frame_after |-> <<>>, frame_out |-> <<>>, key |-> "", attrs |-> {},
           error |-> ""]

\* every text a caller can hand to depseudonymize: tokens of either kind
\* under any key of the model, plain text, and the empty string
Tokens ==
    { FernetTok(PrepareKey(s), v, n) : s \in Secrets, v \in Values \ {""}, n \in Nonces }
      \cup { Wrapped(FernetTok(DetKey(v), v, n)) : v \in Values \ {""}, n \in Nonces }
      \cup { Plain(v) : v \in {"", "a"} }

\* the state of the k-anonymity machine, untouched by the pseudonymizer
KIdle ==
    /\ df = <<>>
    /\ kthr = 1
    /\ out = NoOut

\* two instances after __init__: key prepared, cache empty, no file written;
\* their secrets are the same, differ with the same key bytes, or differ in
\* the key
InitP ==
    /\ secret \in [Instances -> Secrets]
    /\ cache = [i \in Instances |-> EmptyCache]
    /\ files = [f \in FileNames |-> NoFile]
    /\ first = [i \in Instances |-> [v \in Values \ {""} |-> NoTok]]
    /\ last = NoLast
    /\ KIdle
    /\ CIdle
    /\ DIdle
    /\ ExtIdle

\* the first deterministic token instance i returned for v, once there is one
NoteFirst(i, v, deterministic, ret) ==
    IF deterministic /\ v # "" /\ first[i][v] = NoTok
    THEN [first EXCEPT ![i][v] = ret]
    ELSE first

PseudonymizeOp ==
    /\ last = NoLast
    /\ \E i \in { j \in Instances : secret[j] # NoSecret }, v \in Values,
          deterministic \in BOOLEAN :
      \E o \in PseudonymizeOutcomes(secret[i], cache[i], v, deterministic) :
        /\ cache' = [cache EXCEPT ![i] = o.cache]
        /\ first' = NoteFirst(i, v, deterministic, o.ret)
        /\ last' = [NoLast EXCEPT !.op = "pseudonymize", !.inst = i, !.v = v,
                                  !.det = deterministic, !.ret = o.ret]
        /\ UNCHANGED <<secret, files>>
        /\ UNCHANGED nonP

DepseudonymizeOp ==
    /\ last = NoLast
    /\ \E i \in Instances, t \in Tokens :
      \E o \in DepseudonymizeOutcomes(secret[i], cache[i], t) :
        /\ last' = [NoLast EXCEPT !.op = "depseudonymize", !.inst = i,
                                  !.arg = t, !.ret = o.ret, !.err = o.err]
        /\ UNCHANGED <<secret, cache, files, first>>
        /\ UNCHANGED nonP

\* the first token of each value in a pseudonymized column
FirstIn(col, colout, v) ==
    LET hits == { j \in 1..Len(col) : col[j] = Plain(v) }
    IN IF hits = {} THEN NoTok
       ELSE colout[CHOOSE j \in hits : \A h \in hits : j <= h]

PseudonymizeColumnOp ==
    /\ last = NoLast
    /\ \E i \in Instances, col \in ColumnsIn, deterministic \in BOOLEAN :
      \E o \in ColumnOutcomes(secret[i], cache[i], col, deterministic) :
        /\ cache' = [cache EXCEPT ![i] = o.cache]
        /\ first' = [first EXCEPT ![i] =
                       [v \in Values \ {""} |->
                          IF deterministic /\ first[i][v] = NoTok
                          THEN FirstIn(col, o.col, v) ELSE first[i][v]]]
        /\ last' = [NoLast EXCEPT !.op = "pseudonymize_column", !.inst = i,
                                  !.det = deterministic, !.col = col,
                                  !.colout = o.col]
        /\ UNCHANGED <<secret, files>>
        /\ UNCHANGED nonP

\* save_mapping: json.dump of the cache (a str -> str dict, which JSON
\* represents as it is)
SaveMappingOp ==
    /\ last = NoLast
    /\ \E i \in Instances, f \in FileNames :
        /\ files' = [files EXCEPT ![f] = [exists |-> TRUE, content |-> cache[i]]]
        /\ last' = [NoLast EXCEPT !.op = "save_mapping", !.inst = i, !.file = f]
        /\ UNCHANGED <<secret, cache, first>>
        /\ UNCHANGED nonP

\* load_mapping: the cache becomes the file's content; open() raises when
\* the file is not there
LoadMappingOp ==
    /\ last = NoLast
    /\ \E i \in Instances, f \in FileNames :
        /\ cache' = IF files[f].exists
                    THEN [cache EXCEPT ![i] = files[f].content]
                    ELSE cache
        /\ last' = [NoLast EXCEPT !.op = "load_mapping", !.inst = i, !.file = f,
                                  !.err = ~files[f].exists]
        /\ UNCHANGED <<secret, files, first>>
        /\ UNCHANGED nonP

\* the call returns: the caller has its result and may call again (the
\* component is synchronous, a call ends before the next one starts)
ReturnOp ==
    /\ last # NoLast
    /\ last' = NoLast
    /\ UNCHANGED <<secret, cache, files, first>>
    /\ UNCHANGED nonP

NextP ==
    \/ PseudonymizeOp
    \/ DepseudonymizeOp
    \/ PseudonymizeColumnOp
    \/ SaveMappingOp
    \/ LoadMappingOp
    \/ ReturnOp

SpecP == InitP /\ [][NextP]_vars

\* ------------------------------------- one instance shared by concurrent callers
\* pseudonymize(value, deterministic = True) line by line, each caller being
\* a thread inside the method of the same instance
Callers == {1, 2}
Shared == 1                 \* the instance the callers share

NoThr == [pc |-> "idle", v |-> "", pseudonymized |-> NoTok, ret |-> NoTok]

\* variant: the assignment to mapping_cache is lost
CacheStoreLost(c, v, tok) == c

\* self.mapping_cache[value] = pseudonymized
CacheStore(c, v, tok) ==
    [x \in DOMAIN c \cup {v} |-> IF x = v THEN tok ELSE c[x]]

\* the shared instance after __init__; the callers either take a mutex
\* around every call or call the instance as it is
InitC ==
    /\ secret \in { [i \in Instances |-> s] : s \in Secrets }
    /\ cache = [i \in Instances |-> EmptyCache]
    /\ files = [f \in FileNames |-> NoFile]
    /\ first = [i \in Instances |-> [v \in Values \ {""} |-> NoTok]]
    /\ last = NoLast
    /\ serialized \in BOOLEAN
    /\ lock = 0
    /\ thr = [t \in Callers |-> NoThr]
    /\ held = [t \in Callers |-> [v \in Values \ {""} |-> {}]]
    /\ KIdle
    /\ DIdle
    /\ ExtIdle

\* a caller enters pseudonymize (after taking the mutex, when there is one)
CallC(t) ==
    /\ thr[t].pc = "idle"
    /\ serialized => lock = 0
    /\ \E v \in Values :
          thr' = [thr EXCEPT ![t] = [NoThr EXCEPT !.pc = "guard", !.v = v]]
    /\ lock' = IF serialized THEN t ELSE lock
    /\ UNCHANGED <<serialized, held>>
    /\ UNCHANGED <<pvars, nonC>>

\* `if not value or not isinstance(value, str): return value`
GuardC(t) ==
    /\ thr[t].pc = "guard"
    /\ thr' = [thr EXCEPT ![t] =
                 IF thr[t].v = ""
                 THEN [@ EXCEPT !.pc = "return", !.ret = Plain("")]
                 ELSE [@ EXCEPT !.pc = "lookup"]]
    /\ UNCHANGED <<serialized, lock, held>>
    /\ UNCHANGED <<pvars, nonC>>

\* `if deterministic and value in self.mapping_cache: return ...`; entries
\* are never removed here, so the test and the read see the same entry
LookupC(t) ==
    /\ thr[t].pc = "lookup"
    /\ thr' = [thr EXCEPT ![t] =
                 IF thr[t].v \in DOMAIN cache[Shared]
                 THEN [@ EXCEPT !.pc = "return", !.ret = cache[Shared][thr[t].v]]
                 ELSE [@ EXCEPT !.pc = "encrypt"]]
    /\ UNCHANGED <<serialized, lock, held>>
    /\ UNCHANGED <<pvars, nonC>>

\* the encryption under the per-value key, with the IV Fernet draws
EncryptC(t) ==
    /\ thr[t].pc = "encrypt"
    /\ \E n \in Nonces :
          thr' = [thr EXCEPT ![t] =
                    [@ EXCEPT !.pc = "store",
                              !.pseudonymized =
                                  MakeToken(secret[Shared], thr[t].v, TRUE, n)]]
    /\ UNCHANGED <<serialized, lock, held>>
    /\ UNCHANGED <<pvars, nonC>>

\* `if deterministic: self.mapping_cache[value] = pseudonymized`
StoreC(t) ==
    /\ thr[t].pc = "store"
    /\ cache' = [cache EXCEPT ![Shared] =
                   CacheStore(@, thr[t].v, thr[t].pseudonymized)]
    /\ thr' = [thr EXCEPT ![t] =
                 [@ EXCEPT !.pc = "return", !.ret = thr[t].pseudonymized]]
    /\ UNCHANGED <<serialized, lock, held>>
    /\ UNCHANGED <<secret, files, first, last>>
    /\ UNCHANGED nonC

\* the call returns its token to the caller (who then releases the mutex)
ReturnC(t) ==
    /\ thr[t].pc = "return"
    /\ held' = IF thr[t].v = "" THEN held
               ELSE [held EXCEPT ![t][thr[t].v] = @ \cup {thr[t].ret}]
    /\ thr' = [thr EXCEPT ![t] = NoThr]
    /\ lock' = IF serialized THEN 0 ELSE lock
    /\ UNCHANGED serialized
    /\ UNCHANGED <<pvars, nonC>>

NextC ==
    \E t \in Callers :
        \/ CallC(t)
        \/ GuardC(t)
        \/ LookupC(t)
        \/ EncryptC(t)
        \/ StoreC(t)
        \/ ReturnC(t)

SpecC == InitC /\ [][NextC]_vars

\* ------------------------------------------- the column helpers on a batch
\* a pandas batch of two text columns; a cell is null, a string or the
\* empty string
BatchColumns == {"email", "note"}
BatchCells == Cells \cup {Plain("")}
BatchRows == [BatchColumns -> BatchCells]
Batches == UNION { [1..n -> BatchRows] : n \in 0..MaxCol }
NameLists == { <<"email">>, <<"note">>, <<"email", "note">> }

\* pseudonymize_column on a pandas batch: with an active Spark session
\* (SparkSession.getActiveSession() when none is passed) the batch is handed
\* to _pseudonymize_spark_column, whose df.withColumn a pandas DataFrame
\* does not have; without one, _pseudonymize_pandas_column works on a copy.
\* [raised, frame, cache] for every IV the calls may draw
PseudonymizeColumnOutcomes(s, c, frame, column_name, deterministic, session) ==
    IF session
    THEN { [raised |-> TRUE, frame |-> <<>>, cache |-> c] }
    ELSE LET col == [i \in 1..Len(frame) |-> frame[i][column_name]]
         IN { [raised |-> FALSE,
               frame |-> [i \in 1..Len(frame) |->
                            [frame[i] EXCEPT ![column_name] = o.col[i]]],
               cache |-> o.cache] :
                o \in ColumnOutcomes(s, c, col, deterministic) }

\* pseudonymize_multiple_columns: pseudonymize_column, one name after the other
RECURSIVE PseudonymizeMultipleColumnsOutcomes(_, _, _, _, _, _)
PseudonymizeMultipleColumnsOutcomes(s, c, frame, column_names, deterministic, session) ==
    IF column_names = <<>>
    THEN { [raised |-> FALSE, frame |-> frame, cache |-> c] }
    ELSE UNION { IF h.raised THEN {h}
                 ELSE PseudonymizeMultipleColumnsOutcomes(
                          s, h.cache, h.frame, Tail(column_names),
                          deterministic, session) :
                 h \in PseudonymizeColumnOutcomes(s, c, frame, Head(column_names),
                                                  deterministic, session) }

\* one instance after __init__ (first is the history of the single calls
\* and is not kept here)
InitB ==
    /\ secret \in { [i \in Instances |-> s] : s \in Secrets }
    /\ cache = [i \in Instances |-> EmptyCache]
    /\ files = [f \in FileNames |-> NoFile]
    /\ first = [i \in Instances |-> [v \in Values \ {""} |-> NoTok]]
    /\ last = NoLast
    /\ KIdle
    /\ CIdle
    /\ DIdle
    /\ ExtIdle

\* the caller's batch is passed by reference: frame_after is what the
\* caller holds once the call is over (the helpers work on df.copy())
BatchColumnOp ==
    /\ last = NoLast
    /\ \E frame \in Batches, column_name \in BatchColumns,
          deterministic \in BOOLEAN, session \in BOOLEAN :
      \E o \in PseudonymizeColumnOutcomes(secret[Shared], cache[Shared], frame,
                                          column_name, deterministic, session) :
        /\ cache' = [cache EXCEPT ![Shared] = o.cache]
        /\ last' = [NoLast EXCEPT !.op = "pseudonymize_column", !.inst = Shared,
                                  !.det = deterministic, !.session = session,
                                  !.names = <<column_name>>, !.frame = frame,
                                  !.frame_after = frame, !.err = o.raised,
                                  !.frame_out = o.frame]
        /\ UNCHANGED <<secret, files, first>>
        /\ UNCHANGED nonP

BatchColumnsOp ==
    /\ last = NoLast
    /\ \E frame \in Batches, column_names \in NameLists,
          deterministic \in BOOLEAN, session \in BOOLEAN :
      \E o \in PseudonymizeMultipleColumnsOutcomes(
                   secret[Shared], cache[Shared], frame, column_names,
                   deterministic, session) :
        /\ cache' = [cache EXCEPT ![Shared] = o.cache]
        /\ last' = [NoLast EXCEPT !.op = "pseudonymize_multiple_columns",
                                  !.inst = Shared,
                                  !.det = deterministic, !.session = session,
                                  !.names = column_names, !.frame = frame,
                                  !.frame_after = frame, !.err = o.raised,
                                  !.frame_out = o.frame]
        /\ UNCHANGED <<secret, files, first>>
        /\ UNCHANGED nonP

NextB ==
    \/ BatchColumnOp
    \/ BatchColumnsOp
    \/ ReturnOp

SpecB == InitB /\ [][NextB]_vars

\* ------------------------------------------------------------ construction
KeyBytes == 32
HexLen == 64

\* key arguments of the constructor, each described by what the tests of
\* _prepare_key answer on it:
\*   type    "str", or "none" for an argument that is no string
\*   b64     len(base64.urlsafe_b64decode(key)), -1 when it raises
\*   len     len(key), -1 when it raises
\*   hex     len(bytes.fromhex(key)), -1 when it raises (fromhex skips
\*           whitespace between the digit pairs)
\*   digits  how many of its characters are hex digits
\*   id      the bytes it stands for
KeyArgOf == [
    fernet |-> [type |-> "str", b64 |-> 32, len |-> 44, hex |-> -1, digits |-> 20, id |-> "k1"],
    hex64  |-> [type |-> "str", b64 |-> 48, len |-> 64, hex |-> 32, digits |-> 64, id |-> "k1"],
    pass   |-> [type |-> "str", b64 |-> 6,  len |-> 9,  hex |-> -1, digits |-> 3,  id |-> "p1"],
    empty  |-> [type |-> "str", b64 |-> 0,  len |-> 0,  hex |-> 0,  digits |-> 0,  id |-> "p2"],
    spaced |-> [type |-> "str", b64 |-> -1, len |-> 64, hex |-> 21, digits |-> 42, id |-> "p3"],
    none   |-> [type |-> "none", b64 |-> -1, len |-> -1, hex |-> -1, digits |-> 0, id |-> ""] ]
KeyArgs == DOMAIN KeyArgOf

\* _prepare_key on a key argument: the form it was taken in and the number
\* of key bytes behind the base64 text it returns, or the ValueError
PrepareKeyArg(key) ==
    LET k == KeyArgOf[key]
    IN IF k.b64 = KeyBytes
       THEN [raised |-> FALSE, form |-> "b64", n |-> k.b64, id |-> k.id]
       ELSE IF k.len = HexLen /\ k.hex >= 0
       THEN [raised |-> FALSE, form |-> "hex", n |-> k.hex, id |-> k.id]
       ELSE IF k.type = "str"
       THEN [raised |-> FALSE, form |-> "pass", n |-> KeyBytes, id |-> k.id]
       ELSE [raised |-> TRUE, form |-> "none", n |-> 0, id |-> ""]

\* __init__, one assignment after the other: self.key, then self.cipher
\* (Fernet rejects a key that is not 32 bytes), then self.mapping_cache;
\* attrs are the attributes the object has when __init__ ends
Construct(key) ==
    LET p == PrepareKeyArg(key)
    IN IF p.raised
       THEN [raised |-> TRUE, error |-> "Invalid key format", attrs |-> {},
             secret |-> NoSecret]
       ELSE IF p.n # KeyBytes
       THEN [raised |-> TRUE,
             error |-> "Fernet key must be 32 url-safe base64-encoded bytes.",
             attrs |-> {"key"}, secret |-> NoSecret]
       ELSE [raised |-> FALSE, error |-> "",
             attrs |-> {"key", "cipher", "mapping_cache"},
             secret |-> [form |-> p.form, id |-> p.id]]

\* no instance yet
InitN ==
    /\ secret = [i \in Instances |-> NoSecret]
    /\ cache = [i \in Instances |-> EmptyCache]
    /\ files = [f \in FileNames |-> NoFile]
    /\ first = [i \in Instances |-> [v \in Values \ {""} |-> NoTok]]
    /\ last = NoLast
    /\ KIdle
    /\ CIdle
    /\ DIdle
    /\ ExtIdle

\* Pseudonymizer(key): the caller holds the instance only when __init__
\* returned
ConstructOp ==
    /\ last = NoLast
    /\ \E i \in Instances, key \in KeyArgs :
        /\ secret[i] = NoSecret
        /\ LET o == Construct(key)
           IN /\ secret' = [secret EXCEPT ![i] = o.secret]
              /\ last' = [NoLast EXCEPT !.op = "construct", !.inst = i,
                                        !.key = key, !.err = o.raised,
                                        !.error = o.error, !.attrs = o.attrs]
        /\ UNCHANGED <<cache, files, first>>
        /\ UNCHANGED nonP

NextN ==
    \/ ConstructOp
    \/ PseudonymizeOp
    \/ ReturnOp

SpecN == InitN /\ [][NextN]_vars

\* ----------------------------------------------- pseudonymizer properties
NonEmpty == Values \ {""}

\* C5: on one instance, whatever operations came before, a deterministic
\* pseudonymize of v (a single call or a cell of a column) returns the token
\* the first deterministic pseudonymize of v returned on that instance.
C5_TokenStable ==
    /\ (last.op = "pseudonymize" /\ last.det /\ last.v # "") =>
          last.ret = first[last.inst][last.v]
    /\ (last.op = "pseudonymize_column" /\ last.det) =>
          \A j \in 1..Len(last.col) :
              last.col[j] # NullCell =>
                  last.colout[j] = first[last.inst][last.col[j].pt]

\* C6: two instances constructed from the same secret obtain the same
\* deterministic token for the same value.
C6_SameSecretSameToken ==
    \A i \in Instances, j \in Instances, v \in NonEmpty :
        (i # j /\ secret[i] = secret[j]
            /\ first[i][v] # NoTok /\ first[j][v] # NoTok) =>
            first[i][v] = first[j][v]

\* C7: for every value v, every token that pseudonymize(v, deterministic =
\* false) can return on an instance is reversed to v by depseudonymize on
\* every instance holding the same main key, whatever the caches contain.
C7_RoundTrip ==
    \A i \in Instances, j \in Instances, v \in Values :
        PrepareKey(secret[i]) = PrepareKey(secret[j]) =>
            \A o \in PseudonymizeOutcomes(secret[i], cache[i], v, FALSE) :
                DepseudonymizeOutcomes(secret[j], cache[j], o.ret) =
                    { [ret |-> Plain(v), err |-> FALSE] }

\* a non-deterministic token was reversed by an instance whose cache is not
\* empty and which shares its key, not its secret, with the other instance
C7_Witness ==
    /\ last.op = "depseudonymize"
    /\ last.arg.kind = "fernet"
    /\ ~last.err
    /\ last.ret = Plain("a")
    /\ cache[last.inst] # EmptyCache
    /\ \E i \in Instances :
          /\ secret[i] # secret[last.inst]
          /\ PrepareKey(secret[i]) = PrepareKey(secret[last.inst])

\* C8: depseudonymize of a non-empty token returns the main-key decryption
\* when there is one, else the original of a cache entry holding that token,
\* else raises the error naming the token; the call leaves the cache (and
\* the files) as they were, so a failure does not affect later reversals.
C8_Reversal ==
    [][ (last'.op = "depseudonymize" /\ last'.arg # Plain("")) =>
          LET i == last'.inst
              t == last'.arg
              plain == FernetDecrypt(PrepareKey(secret[i]), t)
              originals == { o \in DOMAIN cache[i] : cache[i][o] = t }
          IN /\ cache' = cache
             /\ files' = files
             /\ IF plain # Failed
                THEN ~last'.err /\ last'.ret = Plain(plain)
                ELSE IF originals # {}
                THEN ~last'.err /\ \E o \in originals : last'.ret = Plain(o)
                ELSE last'.err /\ last'.ret = t ]_vars

\* a reversal failed on an instance that holds a cache entry
C8_Witness ==
    /\ last.op = "depseudonymize"
    /\ last.err
    /\ cache[last.inst] # EmptyCache

\* C9: a token that a deterministic pseudonymize of v returned on an
\* instance is reversed to v by every instance built from the same secret
\* whose cache holds the entry v -> token, and raises the reversal error on
\* every such instance whose cache does not hold it.
C9_CacheOnlyReversal ==
    \A i \in Instances, j \in Instances, v \in NonEmpty :
        (secret[i] = secret[j] /\ first[i][v] # NoTok) =>
            DepseudonymizeOutcomes(secret[j], cache[j], first[i][v]) =
                IF v \in DOMAIN cache[j] /\ cache[j][v] = first[i][v]
                THEN { [ret |-> Plain(v), err |-> FALSE] }
                ELSE { [ret |-> first[i][v], err |-> TRUE] }

\* another instance with the same secret failed to reverse a deterministic
\* token that is still in the cache of the instance that returned it
C9_Witness ==
    /\ last.op = "depseudonymize"
    /\ last.err
    /\ \E i \in Instances \ {last.inst} :
          /\ secret[i] = secret[last.inst]
          /\ first[i]["a"] = last.arg
          /\ "a" \in DOMAIN cache[i]
          /\ cache[i]["a"] = last.arg

NonDetFresh(V) ==
    (last'.op = "pseudonymize" /\ ~last'.det /\ last'.v \in V) =>
        LET i == last'.inst
            v == last'.v
        IN /\ cache' = cache
           /\ \E n \in Nonces :
                 last'.ret = FernetTok(PrepareKey(secret[i]), v, n)
           /\ v \in DOMAIN cache[i] => last'.ret # cache[i][v]

\* C11 as stated: pseudonymize(v, deterministic = false) leaves the cache as
\* it was and returns a ciphertext of v under the main key, different from
\* the cached deterministic token of v when there is one; for every v.
C11_NonDetFresh == [][ NonDetFresh(Values) ]_vars

\* C11 as amended: the same for every non-empty v; the empty string is
\* returned as it is, not encrypted, and the cache is left as it was.
C11_NonDetFreshNonEmpty ==
    [][ /\ NonDetFresh(NonEmpty)
        /\ (last'.op = "pseudonymize" /\ ~last'.det /\ last'.v = "") =>
              (cache' = cache /\ last'.ret = Plain("")) ]_vars

\* a non-deterministic pseudonymize returned a main-key ciphertext on an
\* instance whose cache holds a deterministic token of the same value that
\* was loaded from a file another instance saved
C11_Witness ==
    /\ last.op = "pseudonymize"
    /\ ~last.det
    /\ last.ret.kind = "fernet"
    /\ last.v \in DOMAIN cache[last.inst]
    /\ cache[last.inst][last.v] # first[last.inst][last.v]
    /\ \E f \in FileNames : files[f].exists /\ files[f].content = cache[last.inst]

\* the tokens the callers of the shared instance were handed for v
HeldFor(v) == UNION { held[t][v] : t \in Callers }

\* C12: when every deterministic pseudonymize call on the shared instance
\* runs atomically (the callers serialize their calls), all callers are
\* handed the same token for the same value, and it is the cached one; the
\* state in which two callers hold different tokens of one value, one of
\* them the cached one, is reached when the calls are not serialized.
C12_SerializedStable ==
    serialized =>
        \A v \in NonEmpty :
            /\ Cardinality(HeldFor(v)) <= 1
            /\ \A tok \in HeldFor(v) :
                  v \in DOMAIN cache[Shared] /\ cache[Shared][v] = tok

\* without serialization: two callers hold different tokens of the same
\* value and only one of these tokens is in the cache
C12_Witness ==
    /\ ~serialized
    /\ \E t \in Callers, u \in Callers, v \in NonEmpty :
          \E a \in held[t][v], b \in held[u][v] :
              /\ t # u
              /\ a # b
              /\ v \in DOMAIN cache[Shared]
              /\ cache[Shared][v] = a
              /\ \A x \in DOMAIN cache[Shared] : cache[Shared][x] # b

\* ============================================================= PIIDetector
MaxSample == 3        \* values of a drawn sample_values list
MaxScanRows == 2      \* rows of a frame handed to scan_dataframe
SampleCap == 5        \* matches[:5], sample_values[:5]

\* PATTERNS, in the order the dictionary is iterated
PatternOrder == <<"email", "phone", "ssn", "credit_card", "ip_address",
                  "date_of_birth">>
NameType == "name"

\* the Python values of the model: None, the integers 42 and 123456789, and
\* the strings below
Email == Txt("john@example.com")
FullName == Txt("John Smith")
Hello == Txt("hello")
EmptyStr == Txt("")
CardNo == Txt("4111111111111111")
SampleKinds == {None, Num(42), EmptyStr, Email, FullName, Hello, CardNo}
LongKinds == {Email, FullName, Hello}

\* str(value), as astype(str) applies it to a non-null cell
StrOf(v) ==
    IF v = Num(42) THEN Txt("42")
    ELSE IF v = Num(123456789) THEN Txt("123456789")
    ELSE v

\* pattern.search(text) for the strings of the model, as the regular
\* expressions of PATTERNS evaluate on them
PatternSearch(pii_type, text) ==
    \/ pii_type = "email" /\ text = "john@example.com"
    \/ pii_type = "phone" /\ text = "4111111111111111"
    \/ pii_type = "credit_card" /\ text = "4111111111111111"
    \/ pii_type = "ssn" /\ text = "123456789"

\* any(word in COMMON_NAMES for word in value.lower().split())
HasCommonName(text) == text = "John Smith"

\* `value and isinstance(value, str)`
IsText(v) == v.k = "str" /\ v.s # ""

\* the truth value of a Python object (`if v`)
Truthy(v) == v # None /\ v # EmptyStr /\ v # Num(0)

\* ---- double-precision arithmetic of the confidences
\* a double is kept as the fraction num/den it stands for; down marks a
\* result that IEEE-754 rounding left one step below the double nearest to
\* that fraction (0.7999999999999999 for 2/3 * 1.2)
Dbl(n, d) == [num |-> n, den |-> d, down |-> FALSE]

\* the <<matches, sample_size>> for which matches / sample_size * 1.2 is
\* rounded below the nearest double (sample sizes up to 8)
RoundsDown12 == { <<1, 3>>, <<2, 3>>, <<3, 4>>, <<1, 6>>, <<2, 6>>, <<4, 6>>,
                  <<1, 7>>, <<2, 7>>, <<4, 7>>, <<3, 8>>, <<6, 8>> }
\* the same for name_count / len(sample_values) * 1.5
RoundsDown15 == { <<3, 5>>, <<3, 7>>, <<6, 7>> }

\* count / size * 1.2 and count / size * 1.5
Times12(count, size) ==
    [num |-> count * 12, den |-> size * 10, down |-> <<count, size>> \in RoundsDown12]
Times15(count, size) ==
    [num |-> count * 15, den |-> size * 10, down |-> <<count, size>> \in RoundsDown15]

\* a < b on doubles
FLess(a, b) ==
    \/ a.num * b.den < b.num * a.den
    \/ a.num * b.den = b.num * a.den /\ a.down /\ ~b.down

\* min(a, b) and a >= b on doubles
FMin(a, b) == IF FLess(b, a) THEN b ELSE a
FGe(a, b) == ~FLess(a, b)

\* matches[:5]
FirstFive(q) == SubSeq(q, 1, Min2(SampleCap, Len(q)))

\* ---- column names are sequences of characters
NameColumn == <<"N", "a", "m", "e">>
IdColumn == <<"i", "d">>
ColumnNames == {NameColumn, IdColumn}

\* str.lower() on the characters of the model
Lower(name) == [i \in 1..Len(name) |-> IF name[i] = "N" THEN "n" ELSE name[i]]

\* `sub in text`
Contains(text, sub) ==
    \E i \in 1..(Len(text) - Len(sub) + 1) : SubSeq(text, i, i + Len(sub) - 1) = sub

name_indicators ==
    << <<"n", "a", "m", "e">>,
       <<"f", "i", "r", "s", "t", "n", "a", "m", "e">>,
       <<"l", "a", "s", "t", "n", "a", "m", "e">>,
       <<"f", "u", "l", "l", "n", "a", "m", "e">>,
       <<"c", "u", "s", "t", "o", "m", "e", "r", "_", "n", "a", "m", "e">> >>

\* _detect_names: the list of detections (empty or one NAME detection)
DetectNames(column_name, sample_values, minc) ==
    IF \E i \in 1..Len(name_indicators) :
           Contains(Lower(column_name), name_indicators[i])
    THEN LET hits == SelectSeq(sample_values,
                               LAMBDA v : IsText(v) /\ HasCommonName(v.s))
             name_count == Len(hits)
             confidence == FMin(Times15(name_count, Len(sample_values)), Dbl(9, 10))
         IN IF name_count > 0 /\ FGe(confidence, minc)
            THEN << [pii_type |-> NameType,
                     column_name |-> column_name,
                     row_count |-> Len(sample_values),
                     sample_values |-> SelectSeq(FirstFive(sample_values), Truthy),
                     confidence |-> confidence] >>
            ELSE <<>>
    ELSE <<>>

NoSize == -1          \* full_data_size = None, the parameter's default

\* `full_data_size if full_data_size else sample_size`
RowCountOf(full_data_size, sample_size) ==
    IF full_data_size = NoSize \/ full_data_size = 0
    THEN sample_size ELSE full_data_size

\* the matches list the loop over sample_values builds for one pattern
MatchesOf(pii_type, sample_values) ==
    SelectSeq(sample_values, LAMBDA v : IsText(v) /\ PatternSearch(pii_type, v.s))

\* one turn of the loop over PATTERNS: no detection or one
PatternDetection(pii_type, column_name, sample_values, full_data_size, minc) ==
    LET matches == MatchesOf(pii_type, sample_values)
        sample_size == Len(sample_values)
        confidence == FMin(Times12(Len(matches), sample_size), Dbl(1, 1))
    IN IF matches # <<>> /\ FGe(confidence, minc)
       THEN << [pii_type |-> pii_type,
                column_name |-> column_name,
                row_count |-> RowCountOf(full_data_size, sample_size),
                sample_values |-> FirstFive(matches),
                confidence |-> confidence] >>
       ELSE <<>>

RECURSIVE PatternDetections(_, _, _, _, _)
PatternDetections(i, column_name, sample_values, full_data_size, minc) ==
    IF i > Len(PatternOrder) THEN <<>>
    ELSE PatternDetection(PatternOrder[i], column_name, sample_values,
                          full_data_size, minc)
         \o PatternDetections(i + 1, column_name, sample_values,
                              full_data_size, minc)

\* detect_pii_in_column: the list of detections
DetectPiiInColumn(column_name, sample_values, full_data_size, minc) ==
    IF Len(sample_values) = 0 THEN <<>>
    ELSE PatternDetections(1, column_name, sample_values, full_data_size, minc)
         \o DetectNames(column_name, sample_values, minc)

\* ---- scan_dataframe
DefaultSampleSize == 1000      \* sample_size: int = 1000

\* frames of two columns, a text column and an integer column, both nullable
NameCells == {None, FullName, Hello}
IdCells == {None, Num(123456789), Num(42)}
ScanRows ==
    { [c \in ColumnNames |-> IF c = NameColumn THEN x ELSE y] :
        x \in NameCells, y \in IdCells }
ScanFrames == UNION { [1..n -> ScanRows] : n \in 0..MaxScanRows }
SampleSizes == {0, 1, DefaultSampleSize}

\* the rows of sample_df: df.sample(sample_size) draws sample_size rows
\* without replacement, in a random order; a frame that does not exceed
\* sample_size is taken as it is
Samplings(n, sample_size) ==
    IF n > sample_size
    THEN { q \in [1..sample_size -> 1..n] :
             \A i \in 1..sample_size, j \in 1..sample_size : q[i] = q[j] => i = j }
    ELSE { [i \in 1..n |-> i] }

\* sample_df[column].dropna().astype(str).tolist()
ColumnSample(frame, picked, column) ==
    LET cells  == [i \in 1..Len(picked) |-> frame[picked[i]][column]]
        dropna == SelectSeq(cells, LAMBDA v : v # None)
    IN [i \in 1..Len(dropna) |-> StrOf(dropna[i])]

\* scan_dataframe: the dictionary column -> detections, for the rows picked
ScanDataframe(frame, picked, minc) ==
    LET found(c) == DetectPiiInColumn(c, ColumnSample(frame, picked, c),
                                      Len(frame), minc)
    IN [c \in { x \in ColumnNames : found(x) # <<>> } |-> found(c)]

\* ---- the detector's state machine
MinConfidences == {Dbl(0, 10), Dbl(7, 10), Dbl(8, 10), Dbl(9, 10), Dbl(10, 10)}

Samples ==
    UNION { [1..n -> SampleKinds] : n \in 0..MaxSample }
        \cup [1..(SampleCap + 1) -> LongKinds]

NoPii == [op |-> "none", column_name |-> <<>>, sample_values |-> <<>>,
          full_data_size |-> NoSize, detections |-> <<>>, frame |-> <<>>,
          sample_size |-> 0, picked |-> <<>>, results |-> <<>>]

\* a detector after __init__
InitD ==
    /\ min_confidence \in MinConfidences
    /\ pii = NoPii
    /\ KIdle
    /\ PIdle
    /\ CIdle
    /\ ExtIdle

\* detect_pii_in_column on a sample, with or without the table's row count
DetectOp ==
    /\ pii = NoPii
    /\ \E column_name \in ColumnNames, sample_values \in Samples :
        \E full_data_size \in {NoSize, Len(sample_values), DefaultSampleSize} :
          pii' = [NoPii EXCEPT !.op = "detect_pii_in_column",
                               !.column_name = column_name,
                               !.sample_values = sample_values,
                               !.full_data_size = full_data_size,
                               !.detections =
                                   DetectPiiInColumn(column_name, sample_values,
                                                     full_data_size, min_confidence)]
    /\ UNCHANGED min_confidence
    /\ UNCHANGED nonD

ScanOp ==
    /\ pii = NoPii
    /\ \E frame \in ScanFrames, sample_size \in SampleSizes :
        \E picked \in Samplings(Len(frame), sample_size) :
          pii' = [NoPii EXCEPT !.op = "scan_dataframe",
                               !.frame = frame,
                               !.sample_size = sample_size,
                               !.picked = picked,
                               !.results = ScanDataframe(frame, picked, min_confidence)]
    /\ UNCHANGED min_confidence
    /\ UNCHANGED nonD

\* the call returns and the caller may call again
ReturnD ==
    /\ pii # NoPii
    /\ pii' = NoPii
    /\ UNCHANGED min_confidence
    /\ UNCHANGED nonD

NextD ==
    \/ DetectOp
    \/ ScanOp
    \/ ReturnD

SpecD == InitD /\ [][NextD]_vars

\* ------------------------------------------------------ detector properties
\* the confidences as the claims define them, in exact arithmetic
RGe(a, b) == a.num * b.den >= b.num * a.den
RMin(a, b) == IF RGe(a, b) THEN b ELSE a
Indicated(column_name) ==
    \E i \in 1..Len(name_indicators) :
        Contains(Lower(column_name), name_indicators[i])
NameHits(sample_values) ==
    SelectSeq(sample_values, LAMBDA v : IsText(v) /\ HasCommonName(v.s))
Emitted(pii_type) ==
    \E j \in 1..Len(pii.detections) : pii.detections[j].pii_type = pii_type
ElementsOf(q) == { q[i] : i \in 1..Len(q) }

\* C13: on a non-empty sample, detect_pii_in_column emits a classification
\* of a pattern type exactly when min(1.2 * matches / sampleSize, 1) >=
\* min_confidence, and a NAME classification exactly when the column name
\* holds a name indicator and min(1.5 * hits / sampleSize, 0.9) >=
\* min_confidence (sampleSize counting every sampled value); every reported
\* confidence lies in [min_confidence, 1] and a NAME confidence is at most 0.9.
C13_Confidence ==
    (pii.op = "detect_pii_in_column" /\ pii.sample_values # <<>>) =>
        LET n == Len(pii.sample_values)
        IN /\ \A i \in 1..Len(PatternOrder) :
                 Emitted(PatternOrder[i]) <=>
                     RGe(RMin(Dbl(12 * Len(MatchesOf(PatternOrder[i], pii.sample_values)),
                                  10 * n),
                              Dbl(1, 1)),
                         min_confidence)
           /\ Emitted(NameType) <=>
                 /\ Indicated(pii.column_name)
                 /\ RGe(RMin(Dbl(15 * Len(NameHits(pii.sample_values)), 10 * n),
                             Dbl(9, 10)),
                        min_confidence)
           /\ \A j \in 1..Len(pii.detections) :
                 LET d == pii.detections[j]
                 IN /\ FGe(d.confidence, min_confidence)
                    /\ FGe(Dbl(1, 1), d.confidence)
                    /\ d.pii_type = NameType => FGe(Dbl(9, 10), d.confidence)

\* C14: every classification detect_pii_in_column returns carries at most 5
\* sample values, each a sampled value that matched the classification's
\* detector (for NAME: a string holding a word of the name dictionary).
C14_SampleValues ==
    pii.op = "detect_pii_in_column" =>
        \A j \in 1..Len(pii.detections) :
            LET d == pii.detections[j]
            IN /\ Len(d.sample_values) <= SampleCap
               /\ ElementsOf(d.sample_values) \subseteq
                    ElementsOf(IF d.pii_type = NameType
                               THEN NameHits(pii.sample_values)
                               ELSE MatchesOf(d.pii_type, pii.sample_values))

\* C15: every classification detect_pii_in_column returns reports the total
\* row count when one is supplied, and the sample size when none is.
C15_RowCount ==
    pii.op = "detect_pii_in_column" =>
        \A j \in 1..Len(pii.detections) :
            pii.detections[j].row_count =
                IF pii.full_data_size # NoSize
                THEN pii.full_data_size
                ELSE Len(pii.sample_values)

\* C16: scan_dataframe looks at no more than sample_size rows, its keys are
\* columns with at least one classification, only text cells contribute a
\* match (every reported sample value is a text cell of a sampled row), and
\* a column whose sampled cells are all null or non-text is not a key.
C16_ScanTextOnly ==
    pii.op = "scan_dataframe" =>
        /\ Len(pii.picked) <= pii.sample_size \/ Len(pii.picked) = Len(pii.frame)
        /\ \A c \in ColumnNames :
            LET cells == { pii.frame[pii.picked[i]][c] : i \in 1..Len(pii.picked) }
            IN /\ c \in DOMAIN pii.results =>
                    /\ pii.results[c] # <<>>
                    /\ \A j \in 1..Len(pii.results[c]) :
                          \A v \in ElementsOf(pii.results[c][j].sample_values) :
                              v \in cells /\ v.k = "str"
               /\ (\A v \in cells : v.k # "str") => c \notin DOMAIN pii.results

\* ------------------------------------- k-anonymity: missing columns, fixpoint
\* the declared quasi-identifier columns the batch does not have, in order
MissingOf(Q) == SelectSeq(Q, LAMBDA c : c \notin Columns)

\* C17: when a declared quasi-identifier column is absent from the batch,
\* check_k_anonymity returns (it does not raise) k_value = 0, is_compliant =
\* false, no vulnerable combination and a recommendation naming the missing
\* columns, whatever rows the batch holds.
C17_MissingColumns ==
    (out.op = "check_k_anonymity" /\ ~AllPresent(out.Q)) =>
        /\ ~out.raised
        /\ out.res.k_value = 0
        /\ ~out.res.is_compliant
        /\ out.res.vulnerable = {}
        /\ out.res.missing = MissingOf(out.Q)
        /\ out.res.missing # <<>>

\* the check met a missing column on a batch whose present quasi-identifier
\* has a group below the threshold and a group that reaches it
C17_Witness ==
    /\ out.op = "check_k_anonymity"
    /\ ~AllPresent(out.Q)
    /\ kthr = 2
    /\ \E i \in 1..Len(df) : RowsWith(df, <<"zip">>, <<df[i].zip>>) = 1
    /\ \E i \in 1..Len(df) : RowsWith(df, <<"zip">>, <<df[i].zip>>) = 2

\* C18: ensure_k_anonymity on a batch lacking a declared quasi-identifier
\* column returns, without raising, the table and a result with k_value = 0
\* and is_compliant = false, with apply_suppression true as well as false.
C18_MissingNonFatal ==
    (out.op = "ensure_k_anonymity" /\ ~AllPresent(out.Q)) =>
        /\ ~out.raised
        /\ out.res.k_value = 0
        /\ ~out.res.is_compliant

\* C19: the table ensure_k_anonymity returns is a fixpoint: a second call
\* with the same quasi-identifiers, threshold, strategy and suppression flag
\* returns it unchanged (in particular when it is compliant).
C19_Fixpoint ==
    (out.op = "ensure_k_anonymity" /\ ~out.raised) =>
        LET again == EnsureKAnonymity(out.table, out.Q, out.strat, out.sup, kthr)
        IN /\ ~again.raised
           /\ again.table = out.table

\* C20: pseudonymize_column and pseudonymize_multiple_columns on a batch
\* return (they do not raise) a batch with the same columns and the same
\* number of rows, in which the null cells of the target columns are null,
\* every cell of a non-target column is as it was, and the caller's batch is
\* as it was before the call.
C20_BatchFrame ==
    (last.op \in {"pseudonymize_column", "pseudonymize_multiple_columns"}
        /\ last.names # <<>>) =>
        /\ ~last.err
        /\ last.frame_after = last.frame
        /\ Len(last.frame_out) = Len(last.frame)
        /\ \A i \in 1..Len(last.frame_out) :
              /\ DOMAIN last.frame_out[i] = BatchColumns
              /\ \A c \in BatchColumns :
                    IF c \in ElementsOf(last.names)
                    THEN last.frame[i][c] = NullCell =>
                             last.frame_out[i][c] = NullCell
                    ELSE last.frame_out[i][c] = last.frame[i][c]

\* the form the key argument has: base64 of 32 bytes, else 64 hex
\* characters, else any other string, else none
FormOf(key) ==
    LET k == KeyArgOf[key]
    IN IF k.type # "str" THEN "none"
       ELSE IF k.b64 = KeyBytes THEN "b64"
       ELSE IF k.len = HexLen /\ k.digits = HexLen THEN "hex"
       ELSE "pass"

\* C21: construction accepts the key argument under the first of the forms
\* base64 of 32 bytes, 64 hex characters, passphrase that applies, and the
\* instance then holds key, cipher and cache; an argument of none of the
\* forms raises, the object having neither cipher nor cache and the caller
\* no instance.
C21_KeyForms ==
    last.op = "construct" =>
        IF FormOf(last.key) = "none"
        THEN /\ last.err
             /\ last.attrs \cap {"cipher", "mapping_cache"} = {}
             /\ secret[last.inst] = NoSecret
        ELSE /\ ~last.err
             /\ last.attrs = {"key", "cipher", "mapping_cache"}
             /\ secret[last.inst] =
                    [form |-> FormOf(last.key), id |-> KeyArgOf[last.key].id]

\* ============================================================ quality gate
MaxRules == 2

Severities == {"error", "warning", "info"}
\* a rule: its registered severity and its column (none for a table-level
\* rule, else a column the batch has or lacks)
RuleKinds == [severity : Severities, column : {"none", "present", "absent"}]
\* what rule.check_function does on the batch: (True, ...), (False, ...), or
\* it raises
CheckOutcomes == {"pass", "fail", "throw"}
MinQualityScores == {0, 80, 100}

\* the ValidationResult validate appends for rule r
ResultOf(r, outcome) ==
    IF r.column = "absent"
    THEN [passed |-> FALSE, severity |-> "error", message |-> "not found"]
    ELSE IF outcome = "throw"
    THEN [passed |-> FALSE, severity |-> "error", message |-> "Validation error"]
    ELSE [passed |-> outcome = "pass", severity |-> r.severity, message |-> outcome]

\* what the loop of validate adds to error_count / warning_count for rule r
CountsAsError(r, outcome) ==
    \/ r.column = "absent"
    \/ outcome = "throw"
    \/ outcome = "fail" /\ r.severity = "error"

CountsAsWarning(r, outcome) ==
    /\ r.column # "absent"
    /\ outcome = "fail"
    /\ r.severity = "warning"

\* validate(df, fail_on_error) on the rules rs, outcomes[i] being what the
\* check of rule i does on df
Validate(rs, outcomes, fail_on_error, minq) ==
    LET n == Len(rs)
        results == [i \in 1..n |-> ResultOf(rs[i], outcomes[i])]
        error_count == Cardinality({ i \in 1..n : CountsAsError(rs[i], outcomes[i]) })
        warning_count == Cardinality({ i \in 1..n : CountsAsWarning(rs[i], outcomes[i]) })
        passed_rules == Cardinality({ i \in 1..n : results[i].passed })
        score_ok == IF n > 0 THEN passed_rules * 100 >= minq * n ELSE 0 >= minq
        overall_passed == score_ok /\ error_count = 0
    IN [op |-> "validate", fail_on_error |-> fail_on_error, outcomes |-> outcomes,
        raised |-> fail_on_error /\ ~overall_passed /\ error_count > 0,
        results |-> results, error_count |-> error_count,
        warning_count |-> warning_count, passed_rules |-> passed_rules,
        overall_passed |-> overall_passed]

InitQ ==
    /\ min_quality_score \in MinQualityScores
    /\ rules = <<>>
    /\ vres = NoVres
    /\ AIdle
    /\ RIdle
    /\ WIdle
    /\ KIdle
    /\ PIdle
    /\ CIdle
    /\ DIdle

\* add_rule (and the validate_* helpers, which end in add_rule)
AddRuleOp ==
    /\ vres = NoVres
    /\ Len(rules) < MaxRules
    /\ \E r \in RuleKinds : rules' = Append(rules, r)
    /\ UNCHANGED <<min_quality_score, vres>>
    /\ UNCHANGED nonQ

ValidateOp ==
    /\ vres = NoVres
    /\ \E outcomes \in [1..Len(rules) -> CheckOutcomes], fail_on_error \in BOOLEAN :
        vres' = Validate(rules, outcomes, fail_on_error, min_quality_score)
    /\ UNCHANGED <<min_quality_score, rules>>
    /\ UNCHANGED nonQ

\* the call is over: the caller has the dictionary or the ValueError
ReturnQ ==
    /\ vres # NoVres
    /\ vres' = NoVres
    /\ UNCHANGED <<min_quality_score, rules>>
    /\ UNCHANGED nonQ

NextQ ==
    \/ AddRuleOp
    \/ ValidateOp
    \/ ReturnQ

SpecQ == InitQ /\ [][NextQ]_vars

\* C22: validate raises exactly when fail_on_error is set and a rule
\* registered with ERROR severity failed; with fail_on_error unset it never
\* raises, and rules registered as WARNING or INFO never make it raise.
C22_RaisesOnErrorRules ==
    vres.op = "validate" =>
        (vres.raised <=>
            /\ vres.fail_on_error
            /\ \E i \in 1..Len(rules) :
                    rules[i].severity = "error" /\ ~vres.results[i].passed)

\* the cell the generalization of a non-null value c is to give
Coarser(c, level) ==
    IF c.k = "num"
    THEN Num(c.n - (c.n % (IF level = "low" THEN 10
                           ELSE IF level = "medium" THEN 100 ELSE 1000)))
    ELSE IF c.k = "date"
    THEN [k |-> "period", s |-> SubSeq(c.s, 1, IF level = "low" THEN 7 ELSE 4)]
    ELSE IF level = "low" THEN Txt(SubSeq(c.s, 1, Min2(5, Len(c.s))))
    ELSE IF level = "medium" THEN Txt(SubSeq(c.s, 1, Min2(3, Len(c.s))))
    ELSE Txt(<<"*", "*", "*">>)

\* C23: generalize returns a batch with the same rows in the same order in
\* which only the named column differs: a null cell is null, a number is
\* rounded down to a multiple of 10 / 100 / 1000, a date is cut to its month /
\* year / year and a text to its first 5 / 3 characters or the mask, for low /
\* medium / any other level.
C23_Generalize ==
    out.op = "generalize" =>
        /\ Len(out.table) = Len(df)
        /\ \A i \in 1..Len(df) :
              /\ \A f \in (DOMAIN df[i]) \ {out.column} : out.table[i][f] = df[i][f]
              /\ out.table[i][out.column] =
                    IF df[i][out.column] = None THEN None
                    ELSE Coarser(df[i][out.column], out.level)

\* C24: when the aggregation map names no column of the batch (an empty map
\* included), create_aggregate_only_view does not raise and emits one row
\* per group of at least min_group_size rows, holding the group's row count.
C24_NoAggregatedColumn ==
    (out.op = "create_aggregate_only_view"
        /\ (DOMAIN out.aggs) \cap Columns = {}) =>
        /\ ~out.raised
        /\ \A c \in TuplesOf(df, out.Q) :
             RowsWith(df, out.Q, c) >= GivenMin(out.m, kthr) =>
                \E i \in 1..Len(out.view) :
                    out.view[i].key = c /\ out.view[i].n = RowsWith(df, out.Q, c)
        /\ \A i \in 1..Len(out.view) :
             /\ out.view[i].n >= GivenMin(out.m, kthr)
             /\ \A j \in 1..Len(out.view) : out.view[j].key = out.view[i].key => j = i

\* ======================================== audit and lineage ledger buffers
MaxEntries == 3

Trackers == {"audit", "lineage"}
\* a recorded entry: its uuid, and whether json.dumps accepts its details
Entry(id, ok) == [id |-> id, json_ok |-> ok]

\* variant: the buffer is cleared however the flush ends
FlushClearsAlways(buf, led, own, active, write_ok) ==
    IF buf = <<>>
    THEN [raised |-> FALSE, buffer |-> buf, ledger |-> led, spark |-> own]
    ELSE IF ~(own \/ active) \/ (\E i \in 1..Len(buf) : ~buf[i].json_ok) \/ ~write_ok
    THEN [raised |-> TRUE, buffer |-> <<>>, ledger |-> led, spark |-> own \/ active]
    ELSE [raised |-> FALSE, buffer |-> <<>>, ledger |-> led \o buf, spark |-> TRUE]

\* flush: own is whether the recorder has a session, active whether
\* SparkSession.getActiveSession() finds one, write_ok whether the append to
\* the Delta table commits (it commits whole or raises)
Flush(buf, led, own, active, write_ok) ==
    IF buf = <<>>
    THEN [raised |-> FALSE, buffer |-> buf, ledger |-> led, spark |-> own]
    ELSE IF ~(own \/ active)
    THEN [raised |-> TRUE, buffer |-> buf, ledger |-> led, spark |-> FALSE]
    ELSE IF \E i \in 1..Len(buf) : ~buf[i].json_ok
    THEN [raised |-> TRUE, buffer |-> buf, ledger |-> led, spark |-> TRUE]
    ELSE IF ~write_ok
    THEN [raised |-> TRUE, buffer |-> buf, ledger |-> led, spark |-> TRUE]
    ELSE [raised |-> FALSE, buffer |-> <<>>, ledger |-> led \o buf, spark |-> TRUE]

InitA ==
    /\ tracker \in Trackers
    /\ spark \in BOOLEAN
    /\ buffer = <<>>
    /\ ledger = <<>>
    /\ issued = 0
    /\ alast = NoAlast
    /\ KIdle
    /\ PIdle
    /\ CIdle
    /\ DIdle
    /\ QIdle
    /\ RIdle
    /\ WIdle

\* AuditLogger.log and its log_* helpers, LineageTracker.track_*
LogOp ==
    /\ issued < MaxEntries
    /\ \E ok \in BOOLEAN :
        buffer' = Append(buffer, Entry(issued + 1, ok))
    /\ issued' = issued + 1
    /\ alast' = [NoAlast EXCEPT !.op = "log", !.buffer = buffer, !.ledger = ledger]
    /\ UNCHANGED <<tracker, spark, ledger>>
    /\ UNCHANGED nonA

FlushOp ==
    /\ \E active \in BOOLEAN, write_ok \in BOOLEAN :
        LET o == Flush(buffer, ledger, spark, active, write_ok)
        IN /\ buffer' = o.buffer
           /\ ledger' = o.ledger
           /\ spark' = o.spark
           /\ alast' = [op |-> "flush", raised |-> o.raised,
                        buffer |-> buffer, ledger |-> ledger]
    /\ UNCHANGED <<tracker, issued>>
    /\ UNCHANGED nonA

NextL ==
    \/ LogOp
    \/ FlushOp

SpecL == InitA /\ [][NextL]_vars

\* how often entry id occurs in the sequence q
Occurrences(q, id) == Cardinality({ i \in 1..Len(q) : q[i].id = id })

\* C25: over any sequence of log / track and flush calls, each recorded
\* entry is in the buffer or in the ledger, once in all; a flush of an empty
\* buffer changes nothing and does not raise, a flush that raises leaves
\* buffer and ledger as they were, and a flush that returns has appended the
\* buffered entries to the ledger and emptied the buffer.
C25_NoLossNoDuplicate ==
    /\ \A id \in 1..issued :
          Occurrences(buffer, id) + Occurrences(ledger, id) = 1
    /\ \A i \in 1..Len(buffer) : buffer[i].id \in 1..issued
    /\ \A i \in 1..Len(ledger) : ledger[i].id \in 1..issued
    /\ alast.op = "flush" =>
          IF alast.buffer = <<>>
          THEN ~alast.raised /\ buffer = <<>> /\ ledger = alast.ledger
          ELSE IF alast.raised
          THEN buffer = alast.buffer /\ ledger = alast.ledger
          ELSE buffer = <<>> /\ ledger = alast.ledger \o alast.buffer

\* a flush that raised on a filled buffer after an earlier one had succeeded
C25_Witness ==
    /\ alast.op = "flush"
    /\ alast.raised
    /\ buffer # <<>>
    /\ ledger # <<>>

\* ======================================================== retention manager
MaxTableRows == 2

\* a row of the table: newer than the cutoff, older and unmarked, older and
\* marked with deleted_at, or deleted
RowStates == {"fresh", "old", "marked"}
Gone == "gone"
IsOld(r) == r \in {"old", "marked"}

\* which statements the session executes and which raise, as the
\* environment decides
Envs == [count_ok : BOOLEAN, update_ok : BOOLEAN, alter_ok : BOOLEAN,
         update2_ok : BOOLEAN, delete_ok : BOOLEAN]

MarkOld(rows) == [i \in 1..Len(rows) |-> IF rows[i] = "old" THEN "marked" ELSE rows[i]]
DeleteOld(rows) == [i \in 1..Len(rows) |-> IF IsOld(rows[i]) THEN Gone ELSE rows[i]]

\* the hard DELETE at the end of both branches; the outer except turns its
\* failure into status "error"
HardDelete(rows, col, env, stmts) ==
    IF env.delete_ok
    THEN [status |-> "success", stmts |-> Append(stmts, "DELETE"),
          rows |-> DeleteOld(rows), has_col |-> col]
    ELSE [status |-> "error", stmts |-> Append(stmts, "DELETE"),
          rows |-> rows, has_col |-> col]

\* apply_retention(table_name) on the registered policy pol, sess being
\* whether a session is at hand; stmts are the statements sent to it
ApplyRetention(pol, sess, rows, col, env) ==
    LET same(status, stmts) ==
            [status |-> status, stmts |-> stmts, rows |-> rows, has_col |-> col]
    IN IF ~pol.registered THEN same("error", <<>>)
       ELSE IF ~pol.enabled THEN same("skipped", <<>>)
       ELSE IF ~sess THEN same("error", <<>>)
       ELSE IF ~env.count_ok THEN same("error", <<"COUNT">>)
       ELSE IF \A i \in 1..Len(rows) : ~IsOld(rows[i])
       THEN same("success", <<"COUNT">>)
       ELSE IF ~pol.soft_delete
       THEN HardDelete(rows, col, env, <<"COUNT">>)
       ELSE IF col /\ env.update_ok
       THEN [status |-> "success", stmts |-> <<"COUNT", "UPDATE">>,
             rows |-> MarkOld(rows), has_col |-> col]
       ELSE IF ~env.alter_ok
       THEN HardDelete(rows, col, env, <<"COUNT", "UPDATE", "ALTER">>)
       ELSE IF env.update2_ok
       THEN [status |-> "success", stmts |-> <<"COUNT", "UPDATE", "ALTER", "UPDATE">>,
             rows |-> MarkOld(rows), has_col |-> TRUE]
       ELSE HardDelete(rows, TRUE, env, <<"COUNT", "UPDATE", "ALTER", "UPDATE">>)

\* a table whose rows are marked only if it has the column
InitR ==
    /\ policy = NoPolicy
    /\ rspark \in BOOLEAN
    /\ has_col \in BOOLEAN
    /\ trows \in UNION { [1..n -> RowStates] : n \in 0..MaxTableRows }
    /\ (~has_col => \A i \in 1..Len(trows) : trows[i] # "marked")
    /\ rlast = NoRlast
    /\ KIdle
    /\ PIdle
    /\ CIdle
    /\ DIdle
    /\ QIdle
    /\ AIdle
    /\ WIdle

RegisterPolicyOp ==
    /\ \E enabled \in BOOLEAN, soft_delete \in BOOLEAN :
        policy' = [registered |-> TRUE, enabled |-> enabled,
                   soft_delete |-> soft_delete]
    /\ rlast' = NoRlast
    /\ UNCHANGED <<rspark, trows, has_col>>
    /\ UNCHANGED nonR

ApplyRetentionOp ==
    /\ \E active \in BOOLEAN, env \in Envs :
        LET sess == rspark \/ active
            o == ApplyRetention(policy, sess, trows, has_col, env)
        IN /\ rspark' = IF policy.registered /\ policy.enabled THEN sess ELSE rspark
           /\ trows' = o.rows
           /\ has_col' = o.has_col
           /\ rlast' = [op |-> "apply_retention", status |-> o.status,
                        stmts |-> o.stmts, soft_delete |-> policy.soft_delete,
                        before |-> trows]
    /\ UNCHANGED policy
    /\ UNCHANGED nonR

NextR ==
    \/ RegisterPolicyOp
    \/ ApplyRetentionOp

SpecR == InitR /\ [][NextR]_vars

\* C26: apply_retention under a policy registered with soft_delete sends no
\* DELETE and removes no row, whichever statements fail: the rows past the
\* cutoff are at most marked.
C26_SoftNeverDeletes ==
    (rlast.op = "apply_retention" /\ rlast.soft_delete) =>
        /\ \A i \in 1..Len(rlast.stmts) : rlast.stmts[i] # "DELETE"
        /\ \A i \in 1..Len(trows) :
              trows[i] = rlast.before[i] \/ (rlast.before[i] = "old" /\ trows[i] = "marked")

\* ============================================ process_with_compliance
\* the validator as the caller configured it: no rule or one rule
GateRules == {<<>>} \cup { <<r>> : r \in RuleKinds }

\* the arguments of the call and the Spark environment: whether the
\* framework was given a session, whether a session is active, pii_columns
\* (None, [] or some columns) and quasi_identifiers (None, columns of the
\* table, or columns one of which the table lacks)
Wins == [spark : BOOLEAN, active : BOOLEAN,
         pii_columns : {"none", "empty", "some"},
         validate_quality : BOOLEAN, ensure_k_anonymity : BOOLEAN,
         quasi_identifiers : {"none", "present", "absent"}]

\* the batch that source_df.toPandas() yields
PipelineTable == << RowOf(0, ZipA, Num(21)), RowOf(1, ZipA, Num(25)) >>
PipelineBatch == << [email |-> Plain("a"), note |-> Plain("")] >>
QIOf(q) == IF q = "present" THEN <<"zip">> ELSE <<"zip", AbsentColumn>>

\* whether pseudonymize_multiple_columns(df_pandas, pii_columns,
\* deterministic=True) raises
PseudonymizationRaises(active) ==
    \A o \in PseudonymizeMultipleColumnsOutcomes(
                SecretPass, EmptyCache, PipelineBatch, <<"email">>, TRUE, active) :
        o.raised

\* whether ensure_k_anonymity(df_pandas, quasi_identifiers,
\* apply_suppression=True) raises
KAnonymityRaises(q) ==
    EnsureKAnonymity(PipelineTable, QIOf(q), NoStrategy, TRUE, kthr).raised

\* variant: a failed validation is recorded and the run goes on
AfterValidationGoesOn(v, done) ==
    [pc |-> "pseudonymize", steps |-> Append(done, "quality_validation")]

\* what follows validate(df_pandas, fail_on_error=True): its ValueError
\* leaves through the except clause, else the step is recorded
AfterValidation(v, done) ==
    IF v.raised
    THEN [pc |-> "raised", steps |-> done]
    ELSE [pc |-> "pseudonymize", steps |-> Append(done, "quality_validation")]

InitW ==
    /\ min_quality_score \in MinQualityScores
    /\ rules \in GateRules
    /\ vres = NoVres
    /\ WIdle
    /\ KIdle
    /\ PIdle
    /\ CIdle
    /\ DIdle
    /\ AIdle
    /\ RIdle

\* the call: without a session it raises at once, else the lineage entry is
\* recorded
CallW ==
    /\ wpc = "idle"
    /\ \E w \in Wins :
        /\ win' = w
        /\ wpii' = w.pii_columns
        /\ IF w.spark \/ w.active
           THEN /\ wpc' = "read"
                /\ steps' = <<"lineage_tracking">>
                /\ wrec' = [wrec EXCEPT !.lineage = @ + 1]
           ELSE /\ wpc' = "raised"
                /\ UNCHANGED <<steps, wrec>>
    /\ UNCHANGED <<wval, pseudonymized, written>>
    /\ UNCHANGED nonW

\* source_df = self.spark.sql(...), outside the try
ReadW ==
    /\ wpc = "read"
    /\ \E ok \in BOOLEAN :
        wpc' = IF ~ok THEN "raised"
               ELSE IF wpii = "none" THEN "scan" ELSE "convert"
    /\ UNCHANGED <<win, steps, wpii, wval, pseudonymized, written, wrec>>
    /\ UNCHANGED nonW

\* scan_for_pii when pii_columns is None: it may raise, find nothing, or
\* find PII, which it logs and flushes to the audit ledger
ScanW ==
    /\ wpc = "scan"
    /\ \E ok \in BOOLEAN, found \in BOOLEAN, flush_ok \in BOOLEAN :
        IF ~ok
        THEN wpc' = "raised" /\ UNCHANGED <<wpii, wrec>>
        ELSE IF ~found
        THEN wpc' = "convert" /\ UNCHANGED <<wpii, wrec>>
        ELSE IF ~flush_ok
        THEN /\ wpc' = "raised"
             /\ wrec' = [wrec EXCEPT !.audit = @ + 1]
             /\ UNCHANGED wpii
        ELSE /\ wpc' = "convert"
             /\ wpii' = "some"
             /\ wrec' = [wrec EXCEPT !.audit_ledger = @ + wrec.audit + 1, !.audit = 0]
    /\ UNCHANGED <<win, steps, wval, pseudonymized, written>>
    /\ UNCHANGED nonW

\* df_pandas = source_df.toPandas(), the first statement of the try
ConvertW ==
    /\ wpc = "convert"
    /\ \E ok \in BOOLEAN :
        wpc' = IF ~ok THEN "raised"
               ELSE IF win.validate_quality THEN "validate" ELSE "pseudonymize"
    /\ UNCHANGED <<win, steps, wpii, wval, pseudonymized, written, wrec>>
    /\ UNCHANGED nonW

ValidateW ==
    /\ wpc = "validate"
    /\ \E outcomes \in [1..Len(rules) -> CheckOutcomes] :
        LET v == Validate(rules, outcomes, TRUE, min_quality_score)
            a == AfterValidation(v, steps)
        IN /\ wval' = [ran |-> TRUE, raised |-> v.raised,
                       overall_passed |-> v.overall_passed]
           /\ wpc' = a.pc
           /\ steps' = a.steps
    /\ UNCHANGED <<win, wpii, pseudonymized, written, wrec>>
    /\ UNCHANGED nonW

\* `if pii_columns:` pseudonymize, then log the pseudonymization
PseudonymizeW ==
    /\ wpc = "pseudonymize"
    /\ IF wpii # "some"
       THEN /\ wpc' = "k_anonymity"
            /\ UNCHANGED <<steps, pseudonymized, wrec>>
       ELSE IF PseudonymizationRaises(win.active)
       THEN /\ wpc' = "raised"
            /\ UNCHANGED <<steps, pseudonymized, wrec>>
       ELSE /\ wpc' = "k_anonymity"
            /\ pseudonymized' = TRUE
            /\ wrec' = [wrec EXCEPT !.audit = @ + 1]
            /\ steps' = Append(steps, "pseudonymization")
    /\ UNCHANGED <<win, wpii, wval, written>>
    /\ UNCHANGED nonW

\* `if ensure_k_anonymity and quasi_identifiers:` enforce k-anonymity
KAnonymityW ==
    /\ wpc = "k_anonymity"
    /\ IF ~(win.ensure_k_anonymity /\ win.quasi_identifiers # "none")
       THEN wpc' = "write" /\ UNCHANGED steps
       ELSE IF KAnonymityRaises(win.quasi_identifiers)
       THEN wpc' = "raised" /\ UNCHANGED steps
       ELSE wpc' = "write" /\ steps' = Append(steps, "k_anonymity")
    /\ UNCHANGED <<win, wpii, wval, pseudonymized, written, wrec>>
    /\ UNCHANGED nonW

\* createDataFrame and saveAsTable(target_table)
WriteW ==
    /\ wpc = "write"
    /\ \E ok \in BOOLEAN :
        IF ok
        THEN /\ wpc' = "flush"
             /\ written' = TRUE
             /\ steps' = Append(steps, "write")
        ELSE /\ wpc' = "raised"
             /\ UNCHANGED <<written, steps>>
    /\ UNCHANGED <<win, wpii, wval, pseudonymized, wrec>>
    /\ UNCHANGED nonW

\* lineage_tracker.flush() then audit_logger.flush()
FlushW ==
    /\ wpc = "flush"
    /\ \E lineage_ok \in BOOLEAN, audit_ok \in BOOLEAN :
        IF ~lineage_ok
        THEN wpc' = "raised" /\ UNCHANGED wrec
        ELSE IF ~audit_ok /\ wrec.audit > 0
        THEN /\ wpc' = "raised"
             /\ wrec' = [wrec EXCEPT !.lineage_ledger = @ + wrec.lineage,
                                     !.lineage = 0]
        ELSE /\ wpc' = "done"
             /\ wrec' = [lineage |-> 0, audit |-> 0,
                         lineage_ledger |-> wrec.lineage_ledger + wrec.lineage,
                         audit_ledger |-> wrec.audit_ledger + wrec.audit]
    /\ UNCHANGED <<win, steps, wpii, wval, pseudonymized, written>>
    /\ UNCHANGED nonW

NextW ==
    \/ CallW
    \/ ReadW
    \/ ScanW
    \/ ConvertW
    \/ ValidateW
    \/ PseudonymizeW
    \/ KAnonymityW
    \/ WriteW
    \/ FlushW

SpecW == InitW /\ [][NextW]_vars

StepOrder == <<"lineage_tracking", "quality_validation", "pseudonymization",
               "k_anonymity", "write">>
\* q lists members of StepOrder, each at most once, in StepOrder's order
InStepOrder(q) ==
    \E f \in [1..Len(q) -> 1..Len(StepOrder)] :
        /\ \A i \in 1..Len(q) : q[i] = StepOrder[f[i]]
        /\ \A i \in 1..Len(q), j \in 1..Len(q) : i < j => f[i] < f[j]
Completed(step) == \E i \in 1..Len(steps) : steps[i] = step

C28_GeneralizeKeepsK ==
    out.op = "generalize" =>
        \A Q \in { q \in QIChoices : AllPresent(q) } :
            LET before == CheckKAnonymity(df, Q, kthr)
                after == CheckKAnonymity(out.table, Q, kthr)
            IN /\ after.k_value >= before.k_value
               /\ before.is_compliant => after.is_compliant

\* C29: check_k_anonymity puts every row of the batch in one group, the rows
\* with a null quasi-identifier included: the group counts add up to the
\* number of rows, k_value is at most the count of any row's tuple, and every
\* row whose tuple occurs fewer than k_threshold times is in the vulnerable
\* list.
C29_EveryRowGrouped ==
    (out.op = "check_k_anonymity" /\ AllPresent(out.Q)) =>
        /\ SetSum({ <<c, RowsWith(df, out.Q, c)>> : c \in ValueCounts(df, out.Q) })
              = Len(df)
        /\ \A i \in 1..Len(df) :
              LET c == TupleOf(df[i], out.Q)
              IN /\ out.res.k_value <= RowsWith(df, out.Q, c)
                 /\ RowsWith(df, out.Q, c) < kthr =>
                       \E v \in out.res.vulnerable : v.combo = c

\* C30: on a batch without null quasi-identifier cells, suppress_rows
\* applied to its own result, which keeps the surviving rows' original
\* labels, returns that result again; and whether a row is kept depends on
\* the count of its tuple only: two rows whose tuples occur equally often
\* are both kept or both dropped.
C30_SuppressIdempotent ==
    (out.op = "suppress_rows" /\ AllPresent(out.Q) /\ ~out.raised
        /\ \A i \in 1..Len(df) : ~HasNull(df[i], out.Q)) =>
        /\ SuppressRows(out.table, out.Q, out.m, kthr) = out.table
        /\ \A i, i2 \in 1..Len(df) :
              RowsWith(df, out.Q, TupleOf(df[i], out.Q))
                    = RowsWith(df, out.Q, TupleOf(df[i2], out.Q))
                => ((\E j \in 1..Len(out.table) : out.table[j] = df[i])
                      <=> (\E j \in 1..Len(out.table) : out.table[j] = df[i2]))

====
